---- MODULE Spec2Model ----
(***************************************************************************)
(* MedGzuri search gateway (api/search): the bounded LRU+TTL cache, the    *)
(* fixed-window rate limiter and the request handler that ties them to    *)
(* the proxy / search / structuring pipeline.                              *)
(*                                                                         *)
(* Node.js runs one callback at a time, so every synchronous stretch of    *)
(* code (a cache or limiter call, the handler up to its next network       *)
(* await) is one atomic action.  Date.now() is the variable now, in ms.    *)
(***************************************************************************)
EXTENDS Integers, Sequences, FiniteSets, TLC

VARIABLES
    now,            \* Date.now(), milliseconds since the module was loaded
    ticks,          \* number of clock advances so far (bounds the run)
    cache,          \* the Map `cache`, in insertion order: <<[key, data, ts]>>
    rateLimitMap,   \* the Map `rateLimitMap`: ip -> [present, windowStart, count]
    cfg,            \* process.env: which credentials and endpoints are configured
    req,            \* the handler invocations: slot -> position, locals, response
    lastOp,         \* observer: the last direct call and what it returned
    recency,        \* observer: cached keys, least recently set/read first
    storedAt,       \* observer: cached key -> time of its last cacheSet, read since?
    calls,          \* observer: ip -> the ip's current window: its first call, its calls;
                    \* the time of its last direct call of isRateLimited
    ex,             \* a direct call of a function: its input, position and return value
    rateLimitStore, \* lib/security.js: the Map ip -> window shared by its limiters
    ownStore        \* observer: limiter -> the Map it would hold if it had its own

vars == <<now, ticks, cache, rateLimitMap, cfg, req, lastOp, recency, storedAt, calls, ex, rateLimitStore, ownStore>>

-----------------------------------------------------------------------------
(* Program constants.  The two time constants keep their source values;    *)
(* the two size constants are reduced (100 -> CACHE_MAX_SIZE entries,      *)
(* 20 -> RATE_LIMIT_MAX calls) so that "full" and "over the limit" are     *)
(* reached by short runs.                                                  *)

CACHE_MAX_SIZE == 2
CACHE_TTL_MS == 30 * 60 * 1000
RATE_LIMIT_WINDOW_MS == 60 * 1000
RATE_LIMIT_MAX == 3

(* Bounds of the exploration. *)
MaxTicks == 2
ExtraCalls == 2

(* The clock advances by one of these amounts; they put a call exactly on, *)
(* just before and just after each deadline of the code.                   *)
CacheSteps == {1, CACHE_TTL_MS}
RateSteps == {1, RATE_LIMIT_WINDOW_MS, RATE_LIMIT_WINDOW_MS * 2}

IPs == {"ip1", "ip2"}

CacheTypes == {"research"}
TestKeys == [type : CacheTypes, hash : 1..(CACHE_MAX_SIZE + 1)]
TestData == {[kind |-> "object", tag |-> 1]}

Null == [kind |-> "null"]

-----------------------------------------------------------------------------
(* The cache: part_003 lines 64-135.                                       *)

Keys(c) == {c[i].key : i \in 1..Len(c)}

\* cache.has(key)
cacheHas(c, key) == key \in Keys(c)

\* cache.get(key): the entry, or Null for undefined
cacheEntry(c, key) ==
    IF cacheHas(c, key)
    THEN c[CHOOSE i \in 1..Len(c) : c[i].key = key]
    ELSE Null

\* cache.delete(key)
cacheDelete(c, key) == SelectSeq(c, LAMBDA e : e.key # key)

\* cache.set(key, entry): a new key goes to the end, an existing key keeps its place
mapSet(c, key, entry) ==
    IF cacheHas(c, key)
    THEN [i \in 1..Len(c) |-> IF c[i].key = key
                              THEN [key |-> key, data |-> entry.data, ts |-> entry.ts]
                              ELSE c[i]]
    ELSE Append(c, [key |-> key, data |-> entry.data, ts |-> entry.ts])

\* cacheGet(key) at time t: the value returned and the cache afterwards
cacheGet_NoExpiry(c, key, t) ==
    LET entry == cacheEntry(c, key) IN
    IF entry = Null THEN [data |-> Null, cache |-> c]
    ELSE [data |-> entry.data, cache |-> mapSet(cacheDelete(c, key), key, entry)]

cacheGet_NoPromote(c, key, t) ==
    LET entry == cacheEntry(c, key) IN
    IF entry = Null THEN [data |-> Null, cache |-> c]
    ELSE IF t - entry.ts > CACHE_TTL_MS
         THEN [data |-> Null, cache |-> cacheDelete(c, key)]
         ELSE [data |-> entry.data, cache |-> c]

cacheGet_Refresh(c, key, t) ==
    LET entry == cacheEntry(c, key) IN
    IF entry = Null THEN [data |-> Null, cache |-> c]
    ELSE IF t - entry.ts > CACHE_TTL_MS
         THEN [data |-> Null, cache |-> cacheDelete(c, key)]
         ELSE [data |-> entry.data,
               cache |-> mapSet(cacheDelete(c, key), key, [data |-> entry.data, ts |-> t])]

cacheGet(c, key, t) ==
    LET entry == cacheEntry(c, key) IN
    IF entry = Null THEN [data |-> Null, cache |-> c]
    ELSE IF t - entry.ts > CACHE_TTL_MS
         THEN [data |-> Null, cache |-> cacheDelete(c, key)]
         ELSE [data |-> entry.data, cache |-> mapSet(cacheDelete(c, key), key, entry)]

\* cacheSet(key, data) at time t: the cache afterwards
cacheSet_NoEvict(c, key, data, t) ==
    mapSet(IF cacheHas(c, key) THEN cacheDelete(c, key) ELSE c,
           key, [data |-> data, ts |-> t])

cacheSet_EvictNewest(c, key, data, t) ==
    LET c1 == IF cacheHas(c, key) THEN cacheDelete(c, key)
              ELSE IF Len(c) >= CACHE_MAX_SIZE
                   THEN cacheDelete(c, c[Len(c)].key)
                   ELSE c
    IN mapSet(c1, key, [data |-> data, ts |-> t])

cacheSet_NoHasBranch(c, key, data, t) ==
    mapSet(IF Len(c) >= CACHE_MAX_SIZE THEN cacheDelete(c, c[1].key) ELSE c,
           key, [data |-> data, ts |-> t])

cacheSet_KeepFirst(c, key, data, t) ==
    IF cacheHas(c, key) THEN c
    ELSE mapSet(IF Len(c) >= CACHE_MAX_SIZE THEN cacheDelete(c, c[1].key) ELSE c,
                key, [data |-> data, ts |-> t])

cacheSet(c, key, data, t) ==
    LET c1 == IF cacheHas(c, key) THEN cacheDelete(c, key)
              ELSE IF Len(c) >= CACHE_MAX_SIZE
                   THEN cacheDelete(c, c[1].key)
                   ELSE c
    IN mapSet(c1, key, [data |-> data, ts |-> t])

\* the periodic TTL sweep at time t
cacheSweep_AtTtl(c, t) == SelectSeq(c, LAMBDA e : ~(t - e.ts >= CACHE_TTL_MS))

cacheSweep(c, t) == SelectSeq(c, LAMBDA e : ~(t - e.ts > CACHE_TTL_MS))

-----------------------------------------------------------------------------
(* The rate limiter: part_003 lines 146-176.                               *)

NoWindow == [present |-> FALSE, windowStart |-> 0, count |-> 0]

\* isRateLimited(ip) at time t: the value returned and the map afterwards
isRateLimited_AtMax(m, ip, t) ==
    LET entry == m[ip] IN
    IF ~entry.present \/ t - entry.windowStart > RATE_LIMIT_WINDOW_MS
    THEN [limited |-> FALSE,
          map |-> [m EXCEPT ![ip] = [present |-> TRUE, windowStart |-> t, count |-> 1]]]
    ELSE [limited |-> entry.count + 1 >= RATE_LIMIT_MAX,
          map |-> [m EXCEPT ![ip].count = entry.count + 1]]

isRateLimited_StayBlocked(m, ip, t) ==
    LET entry == m[ip] IN
    IF ~entry.present
       \/ (t - entry.windowStart > RATE_LIMIT_WINDOW_MS /\ entry.count <= RATE_LIMIT_MAX)
    THEN [limited |-> FALSE,
          map |-> [m EXCEPT ![ip] = [present |-> TRUE, windowStart |-> t, count |-> 1]]]
    ELSE [limited |-> entry.count + 1 > RATE_LIMIT_MAX,
          map |-> [m EXCEPT ![ip].count = entry.count + 1]]

isRateLimited(m, ip, t) ==
    LET entry == m[ip] IN
    IF ~entry.present \/ t - entry.windowStart > RATE_LIMIT_WINDOW_MS
    THEN [limited |-> FALSE,
          map |-> [m EXCEPT ![ip] = [present |-> TRUE, windowStart |-> t, count |-> 1]]]
    ELSE [limited |-> entry.count + 1 > RATE_LIMIT_MAX,
          map |-> [m EXCEPT ![ip].count = entry.count + 1]]

\* the periodic cleanup at time t
rateSweep_OneWindow(m, t) ==
    [ip \in DOMAIN m |->
        IF m[ip].present /\ t - m[ip].windowStart > RATE_LIMIT_WINDOW_MS
        THEN NoWindow ELSE m[ip]]

rateSweep(m, t) ==
    LET cutoff == RATE_LIMIT_WINDOW_MS * 2 IN
    [ip \in DOMAIN m |->
        IF m[ip].present /\ t - m[ip].windowStart > cutoff THEN NoWindow ELSE m[ip]]

-----------------------------------------------------------------------------
(* The limiters of lib/security.js, lines 80-111.                          *)

\* the pre-configured limiters and their maxRequests and windowMs arguments
Limiters == {"search", "auth", "leads"}
LimiterMax == [search |-> 20, auth |-> 5, leads |-> 10]
LimiterWindowMs == 60 * 1000

\* the function returned by createRateLimiter(maxRequests, windowMs), called
\* with ip at time t on the Map m: the value returned and the Map afterwards
createRateLimiter(maxRequests, windowMs, m, ip, t) ==
    LET entry == m[ip] IN
    IF ~entry.present \/ t - entry.windowStart > windowMs
    THEN [limited |-> FALSE,
          map |-> [m EXCEPT ![ip] = [present |-> TRUE, windowStart |-> t, count |-> 1]]]
    ELSE [limited |-> entry.count + 1 > maxRequests,
          map |-> [m EXCEPT ![ip].count = entry.count + 1]]

\* the periodic cleanup at time t
storeSweep(m, t) ==
    [ip \in DOMAIN m |->
        IF m[ip].present /\ t - m[ip].windowStart > 120000 THEN NoWindow ELSE m[ip]]

-----------------------------------------------------------------------------
(* Request values.  A JavaScript value is a record with a tag t; a string  *)
(* is its UTF-16 code units: pre followed by pad times "a".                *)

Undefined == [t |-> "undefined"]
JsNull == [t |-> "null"]
Bool(b) == [t |-> "bool", v |-> b]
Str(pre, pad) == [t |-> "str", pre |-> pre, pad |-> pad]
Num(v) == [t |-> "num", v |-> v]
List(xs) == [t |-> "list", xs |-> xs]
Obj(fields) == [t |-> "obj", fields |-> fields]

\* the UTF-16 code units of the names the model uses
Chars(s) ==
    CASE s = "type" -> <<116, 121, 112, 101>>
      [] s = "diagnosis" -> <<100, 105, 97, 103, 110, 111, 115, 105, 115>>
      [] s = "symptoms" -> <<115, 121, 109, 112, 116, 111, 109, 115>>
      [] s = "context" -> <<99, 111, 110, 116, 101, 120, 116>>
      [] s = "notes" -> <<110, 111, 116, 101, 115>>
      [] s = "existingConditions" -> <<101, 120, 105, 115, 116, 105, 110, 103, 67, 111, 110,
                                       100, 105, 116, 105, 111, 110, 115>>
      [] s = "medications" -> <<109, 101, 100, 105, 99, 97, 116, 105, 111, 110, 115>>
      [] s = "age" -> <<97, 103, 101>>
      [] s = "countries" -> <<99, 111, 117, 110, 116, 114, 105, 101, 115>>
      [] s = "reportType" -> <<114, 101, 112, 111, 114, 116, 84, 121, 112, 101>>
      [] s = "searchResult" -> <<115, 101, 97, 114, 99, 104, 82, 101, 115, 117, 108, 116>>
      [] s = "meta" -> <<109, 101, 116, 97>>
      [] s = "research" -> <<114, 101, 115, 101, 97, 114, 99, 104>>
      [] s = "clinics" -> <<99, 108, 105, 110, 105, 99, 115>>
      [] s = "report" -> <<114, 101, 112, 111, 114, 116>>
      [] s = "invalid" -> <<105, 110, 118, 97, 108, 105, 100>>
      [] s = "items" -> <<105, 116, 101, 109, 115>>
      [] s = "summary" -> <<115, 117, 109, 109, 97, 114, 121>>
      [] s = "sections" -> <<115, 101, 99, 116, 105, 111, 110, 115>>
      [] s = "title" -> <<116, 105, 116, 108, 101>>
      [] s = "json" -> <<106, 115, 111, 110>>
      [] s = "body" -> <<98, 111, 100, 121>>
      [] s = "" -> <<>>

\* value.length of a string
StrLen(v) == Len(v.pre) + v.pad

\* the code units of a string value
StrChars(v) == v.pre \o [i \in 1..v.pad |-> 97]

\* JavaScript truthiness: !!v
Truthy(v) ==
    CASE v.t = "undefined" -> FALSE
      [] v.t = "null" -> FALSE
      [] v.t = "bool" -> v.v
      [] v.t = "str" -> StrLen(v) > 0
      [] v.t = "num" -> v.v # 0
      [] OTHER -> TRUE

\* obj.name: the value of the property, Undefined when obj has none
Prop(obj, name) ==
    IF obj.t = "obj" /\ \E i \in 1..Len(obj.fields) : obj.fields[i].k = name
    THEN obj.fields[CHOOSE i \in 1..Len(obj.fields) : obj.fields[i].k = name].v
    ELSE Undefined

\* obj.name = v: the property keeps its place when obj has it and is added
\* at the end when it has not
SetProp(obj, name, v) ==
    IF \E i \in 1..Len(obj.fields) : obj.fields[i].k = name
    THEN Obj([i \in 1..Len(obj.fields) |->
                 IF obj.fields[i].k = name THEN [k |-> name, v |-> v]
                 ELSE obj.fields[i]])
    ELSE Obj(Append(obj.fields, [k |-> name, v |-> v]))

\* { ...obj, ...src }: the properties of src assigned to obj one after the other
RECURSIVE Spread(_, _)
Spread(obj, fs) ==
    IF fs = <<>> THEN obj ELSE Spread(SetProp(obj, fs[1].k, fs[1].v), Tail(fs))

IsDigits(cs) == Len(cs) > 0 /\ \A i \in 1..Len(cs) : cs[i] \in 48..57

RECURSIVE DigitsValue(_)
DigitsValue(cs) ==
    IF cs = <<>> THEN 0
    ELSE DigitsValue(SubSeq(cs, 1, Len(cs) - 1)) * 10 + (cs[Len(cs)] - 48)

\* Number(v): [nan, v].  Of the numeric strings only those of decimal digits
\* are covered; a string of white space is 0, true is 1, false and null are 0,
\* and an array is converted through its string: [] is 0, [x] is Number(x)
RECURSIVE ToNumber(_)
ToNumber(v) ==
    CASE v.t = "num" -> [nan |-> FALSE, v |-> v.v]
      [] v.t = "str" -> IF v.pad = 0 /\ \A i \in 1..Len(v.pre) : v.pre[i] \in {9, 10, 13, 32}
                        THEN [nan |-> FALSE, v |-> 0]
                        ELSE IF v.pad = 0 /\ IsDigits(v.pre)
                             THEN [nan |-> FALSE, v |-> DigitsValue(v.pre)]
                             ELSE [nan |-> TRUE, v |-> 0]
      [] v.t = "bool" -> [nan |-> FALSE, v |-> IF v.v THEN 1 ELSE 0]
      [] v.t = "null" -> [nan |-> FALSE, v |-> 0]
      [] v.t = "list" -> IF Len(v.xs) = 0 THEN [nan |-> FALSE, v |-> 0]
                         ELSE IF Len(v.xs) = 1 /\ v.xs[1].t \in {"num", "str"}
                              THEN ToNumber(v.xs[1])
                              ELSE [nan |-> TRUE, v |-> 0]
      [] OTHER -> [nan |-> TRUE, v |-> 0]

RECURSIVE Digits(_)
\* the decimal digits of n >= 0
Digits(n) == IF n < 10 THEN <<48 + n>> ELSE Digits(n \div 10) \o <<48 + (n % 10)>>

RECURSIVE JsonList(_)
RECURSIVE JsonFields(_, _)
RECURSIVE Json(_)
\* JSON.stringify(v), for the values the model uses (no character needs an escape)
Json(v) ==
    CASE v.t = "str" -> <<34>> \o StrChars(v) \o <<34>>
      [] v.t = "num" -> IF v.v < 0 THEN <<45>> \o Digits(0 - v.v) ELSE Digits(v.v)
      [] v.t = "list" -> <<91>> \o JsonList(v.xs) \o <<93>>
      [] v.t = "obj" -> <<123>> \o JsonFields(v.fields, TRUE) \o <<125>>
      [] v.t = "bool" -> IF v.v THEN <<116, 114, 117, 101>> ELSE <<102, 97, 108, 115, 101>>
      [] v.t = "null" -> <<110, 117, 108, 108>>
JsonList(xs) ==
    IF xs = <<>> THEN <<>>
    ELSE Json(xs[1]) \o (IF Len(xs) > 1 THEN <<44>> ELSE <<>>) \o JsonList(Tail(xs))
\* the properties of an object; properties whose value is undefined are left out
JsonFields(fs, first) ==
    IF fs = <<>> THEN <<>>
    ELSE IF fs[1].v.t = "undefined" THEN JsonFields(Tail(fs), first)
    ELSE (IF first THEN <<>> ELSE <<44>>)
         \o <<34>> \o Chars(fs[1].k) \o <<34, 58>> \o Json(fs[1].v)
         \o JsonFields(Tail(fs), FALSE)

-----------------------------------------------------------------------------
(* getCacheKey: part_003 lines 76-85.  A 32-bit hash is a pair <<hi, lo>>  *)
(* of 16-bit halves.                                                       *)

\* hash = ((hash << 5) - hash) + ch; hash |= 0
HashStep_Add(h, ch) ==
    LET lo == h[2] + ch
        hi == h[1] + (lo \div 65536)
    IN <<hi % 65536, lo % 65536>>

HashStep(h, ch) ==
    LET lo == (h[2] * 31) + ch
        hi == (h[1] * 31) + (lo \div 65536)
    IN <<hi % 65536, lo % 65536>>

RECURSIVE HashRange(_, _, _, _)
\* the loop over normalized[lo..hi], started with hash h: the left half, then
\* the right half from the hash the left half leaves (mid and left range over
\* singleton sets, so each is a value computed once)
HashRange(cs, lo, hi, h) ==
    IF lo > hi THEN h
    ELSE IF lo = hi THEN HashStep(h, cs[lo])
    ELSE CHOOSE right \in UNION {{HashRange(cs, mid + 1, hi, left) :
                                     left \in {HashRange(cs, lo, mid, h)}} :
                                 mid \in {(lo + hi) \div 2}} : TRUE

\* the pair <<hi, lo>> as the signed 32-bit integer that `hash |= 0` leaves
ToInt32(h) == IF h[1] >= 32768 THEN (h[1] - 65536) * 65536 + h[2]
              ELSE h[1] * 65536 + h[2]

\* JSON.stringify({ type, ...data })
Normalized(type, data) ==
    Json(Spread(Obj(<<[k |-> "type", v |-> Str(Chars(type), 0)]>>), data.fields))

NoKey == [type |-> "", hash |-> 0]

\* line 84 with the type left out of the key
getCacheKey_NoPrefix(type, data) ==
    CHOOSE key \in {[type |-> "",
                     hash |-> ToInt32(HashRange(normalized, 1, Len(normalized), <<0, 0>>))] :
                        normalized \in {Normalized(type, data)}} : TRUE

\* the key `${type}:${hash}`, as the pair of its two parts
getCacheKey(type, data) ==
    CHOOSE key \in {[type |-> type,
                     hash |-> ToInt32(HashRange(normalized, 1, Len(normalized), <<0, 0>>))] :
                        normalized \in {Normalized(type, data)}} : TRUE

-----------------------------------------------------------------------------
(* The handler: part_003 lines 221-356, and the pipeline it calls.         *)

\* process.env: PERPLEXITY_API_KEY, ANTHROPIC_API_KEY, N8N_WEBHOOK_BASE_URL,
\* SUPABASE_URL and SUPABASE_SERVICE_KEY (lines 33-45)
Configs == [perplexity : BOOLEAN, anthropic : BOOLEAN, n8n : BOOLEAN, supabase : BOOLEAN]
NoConfig == [perplexity |-> FALSE, anthropic |-> FALSE, n8n |-> FALSE, supabase |-> FALSE]

VALID_TYPES == {"research", "symptoms", "clinics", "report"}
MAX_TEXT_LENGTH == 2000
TextFields == <<"diagnosis", "symptoms", "context", "notes", "existingConditions",
                "medications">>

\* req.body of a POST request: absent, or { type, data }
NoBody == [present |-> FALSE, type |-> "", data |-> Undefined]
Body(type, data) == [present |-> TRUE, type |-> type, data |-> data]
Field(k, v) == [k |-> k, v |-> v]

\* The request bodies the handler is run on.
Bodies == <<
    NoBody,                                                      \* 1: no body
    Body("", Undefined),                                         \* 2: {}
    Body("research", Undefined),                                 \* 3: data missing
    Body("invalid", Obj(<<>>)),                                  \* 4: unknown type
    Body("research", Obj(<<Field("diagnosis", Str(<<>>, MAX_TEXT_LENGTH + 1))>>)),
    Body("symptoms", Obj(<<Field("symptoms", Str(<<104>>, 0)),
                           Field("age", Num(200))>>)),           \* 6: age 200
    Body("research", Obj(<<Field("diagnosis", Str(<<65, 97>>, 0))>>)),   \* 7: "Aa"
    Body("research", Obj(<<Field("diagnosis", Str(<<66, 66>>, 0))>>)),   \* 8: "BB"
    Body("symptoms", Obj(<<Field("symptoms", Str(<<104>>, 0)),
                           Field("age", Num(30))>>)),            \* 9
    Body("clinics", Obj(<<Field("diagnosis", Str(<<120>>, 0)),
                          Field("countries", List(<<Str(<<68, 69>>, 0)>>))>>)),  \* 10
    Body("clinics", Obj(<<Field("diagnosis", Str(<<120>>, 0))>>)),       \* 11: no countries
    Body("report", Obj(<<Field("reportType", Str(Chars("research"), 0)),
                         Field("searchResult",
                               Obj(<<Field("meta", Str(<<116>>, 0))>>))>>)),  \* 12
    Body("research", Obj(<<Field("diagnosis", Str(<<>>, MAX_TEXT_LENGTH))>>)),  \* 13
    Body("research", Obj(<<Field("diagnosis", Str(<<120>>, 0)),
                           Field("notes", Str(<<>>, MAX_TEXT_LENGTH + 1))>>)),  \* 14
    Body("clinics", Obj(<<Field("diagnosis", Str(<<120>>, 0)),
                          Field("countries", List(<<Str(<<68, 69>>, 0)>>)),
                          Field("medications", Str(<<>>, MAX_TEXT_LENGTH + 1))>>)),  \* 15
    Body("symptoms", Obj(<<Field("symptoms", Str(<<104>>, 0)),
                           Field("age", Num(0))>>)),             \* 16
    Body("symptoms", Obj(<<Field("symptoms", Str(<<104>>, 0)),
                           Field("age", Num(150))>>)),           \* 17
    Body("symptoms", Obj(<<Field("symptoms", Str(<<104>>, 0)),
                           Field("age", Num(151))>>)),           \* 18
    Body("symptoms", Obj(<<Field("symptoms", Str(<<104>>, 0)),
                           Field("age", Num(-1))>>)),            \* 19
    Body("symptoms", Obj(<<Field("symptoms", Str(<<104>>, 0)),
                           Field("age", Str(<<97, 98, 99>>, 0))>>)),   \* 20: age "abc"
    Body("symptoms", Obj(<<Field("symptoms", Str(<<104>>, 0)),
                           Field("age", Str(<<53, 48>>, 0))>>)),       \* 21: age "50"
    Body("symptoms", Obj(<<Field("symptoms", Str(<<104>>, 0)),
                           Field("age", Bool(TRUE))>>)),         \* 22: age true
    Body("symptoms", Obj(<<Field("symptoms", Str(<<104>>, 0)),
                           Field("age", List(<<>>))>>)),         \* 23: age []
    Body("symptoms", Obj(<<Field("symptoms", Str(<<104>>, 0)),
                           Field("age", Str(<<32>>, 0))>>)),     \* 24: age " "
    Body("symptoms", Obj(<<Field("symptoms", Str(<<104>>, 0)),
                           Field("age", Obj(<<>>))>>)),          \* 25: age {}
    Body("research", Obj(<<Field("diagnosis",
                                 List(<<Str(<<>>, MAX_TEXT_LENGTH + 1)>>))>>)),  \* 26
    Body("symptoms", Obj(<<Field("type", Str(Chars("research"), 0)),
                           Field("diagnosis", Str(<<65, 97>>, 0))>>))    \* 27: the
                                     \* normalized text, and the hash, of body 7
>>

Malformed == {1, 2, 3, 4}
OutOfRange == {5, 6}
Invalid == Malformed \cup OutOfRange

\* lines 273-297: the status the validation answers with, 0 when the request
\* passes.  Destructuring an undefined req.body throws; the catch answers 500.
Validate(body) ==
    IF ~body.present THEN 500
    ELSE IF body.type = "" \/ ~Truthy(body.data) THEN 400
    ELSE IF body.type \notin VALID_TYPES THEN 400
    ELSE IF \E i \in 1..Len(TextFields) :
                LET field == Prop(body.data, TextFields[i])
                IN Truthy(field) /\ field.t = "str" /\ StrLen(field) > MAX_TEXT_LENGTH
         THEN 400
    ELSE IF LET age == Prop(body.data, "age")
            IN Truthy(age) /\ (ToNumber(age).nan \/ ToNumber(age).v < 0
                               \/ ToNumber(age).v > 150)
         THEN 400
    ELSE 0

\* lines 263-297: the rate limit, then the validation.  status 0: admitted.
Admission_ValidateFirst(m, ip, body, t) ==
    IF Validate(body) # 0
    THEN [status |-> Validate(body), map |-> m, fx |-> {}]
    ELSE LET r == isRateLimited(m, ip, t)
         IN [status |-> IF r.limited THEN 429 ELSE 0, map |-> r.map, fx |-> {"rate"}]

Admission(m, ip, body, t) ==
    LET r == isRateLimited(m, ip, t)
    IN IF r.limited
       THEN [status |-> 429, map |-> r.map, fx |-> {"rate"}]
       ELSE [status |-> Validate(body), map |-> r.map, fx |-> {"rate"}]

\* A response body or pipeline result.  kind: "object", "scalar" (a JSON
\* number, string or boolean), "error"; src: the stage that built the content;
\* items: items.length; q: the request body it was built for;
\* pipeline: the _pipeline property.
NoTrace == [set |-> FALSE, source |-> "", n8n |-> ""]
Result(kind, src, items, q) ==
    [kind |-> kind, src |-> src, items |-> items, isDemo |-> FALSE,
     cached |-> FALSE, pipeline |-> NoTrace, q |-> q]
NoResult == Result("none", "", 0, 0)
ErrorBody(msg) == Result("error", msg, 0, 0)

\* obj._pipeline = trace: a property set on a primitive is dropped silently
SetPipeline(result, trace) ==
    IF result.kind = "scalar" THEN result ELSE [result EXCEPT !.pipeline = trace]
\* lines 306-307, on the cached object itself
MarkCached_NoTrace(result) ==
    IF result.kind = "scalar" THEN result ELSE [result EXCEPT !.cached = TRUE]
MarkCached(result) ==
    IF result.kind = "scalar" THEN result
    ELSE [result EXCEPT !.cached = TRUE,
                        !.pipeline = [set |-> TRUE, source |-> "cache", n8n |-> ""]]

\* getDemoResult(type, data), lines 1044-1121
getDemoResult(type, q) ==
    Result("object", "demo",
           CASE type = "research" -> 3 [] type = "symptoms" -> 2
             [] type = "clinics" -> 3 [] OTHER -> 0,
           q)
\* getDemoReport(reportType, searchResult), lines 508-533
getDemoReport(q) == [Result("object", "demoReport", 0, q) EXCEPT !.isDemo = TRUE]
\* formatRawResults, lines 1022-1033
formatRawResults(q) == Result("object", "raw", 1, q)
\* the role a demo fallback of claudeAnalyze uses, lines 627, 736, 824
RoleType(role) == IF role \in {"symptoms", "clinics"} THEN role ELSE "research"

\* getCacheKey(type, data) for each of the bodies above that passes the
\* validation (line 302), computed once
CacheKeys == [b \in DOMAIN Bodies |->
                 IF Validate(Bodies[b]) = 0
                 THEN getCacheKey(Bodies[b].type, Bodies[b].data) ELSE NoKey]

\* lines 299-310: the cache lookup for the body Bodies[b].  A hit marks the
\* cached object, which is the object the Map holds.
Lookup_NoTrace(c, b, t) ==
    IF Bodies[b].type # "report"
    THEN LET key == CacheKeys[b]
             g == cacheGet(c, key, t)
         IN IF g.data # Null
            THEN [key |-> key, hit |-> TRUE, data |-> MarkCached_NoTrace(g.data),
                  fx |-> {"cacheGet"},
                  cache |-> mapSet(g.cache, key,
                                   [data |-> MarkCached_NoTrace(g.data),
                                    ts |-> cacheEntry(c, key).ts])]
            ELSE [key |-> key, hit |-> FALSE, data |-> Null, fx |-> {"cacheGet"},
                  cache |-> g.cache]
    ELSE [key |-> NoKey, hit |-> FALSE, data |-> Null, fx |-> {}, cache |-> c]

Lookup(c, b, t) ==
    IF Bodies[b].type # "report"
    THEN LET key == CacheKeys[b]
             g == cacheGet(c, key, t)
         IN IF g.data # Null
            THEN [key |-> key, hit |-> TRUE, data |-> MarkCached(g.data),
                  fx |-> {"cacheGet"},
                  cache |-> mapSet(g.cache, key,
                                   [data |-> MarkCached(g.data),
                                    ts |-> cacheEntry(c, key).ts])]
            ELSE [key |-> key, hit |-> FALSE, data |-> Null, fx |-> {"cacheGet"},
                  cache |-> g.cache]
    ELSE [key |-> NoKey, hit |-> FALSE, data |-> Null, fx |-> {}, cache |-> c]

\* One handler invocation.  pc: "free", the await it is suspended at ("proxy",
\* "search", "claude", "fix", "report"), or "done" once it has responded.
\* cl: how the structuring call ended ("nokey": it was not made); log: the
\* promise of the telemetry fetch ("" when there is none); sent: the number of
\* responses sent for the request; head: the fetch of the pending call has
\* resolved (status line and headers are in, the body is being read).
Idle == [pc |-> "free", method |-> "", ip |-> "", b |-> 0, nth |-> 0, key |-> NoKey,
         sr |-> "null", cl |-> "", parsed |-> NoResult, n8n |-> "", log |-> "",
         status |-> 0, body |-> NoResult, fx |-> {}, seen |-> FALSE, sent |-> 0,
         head |-> FALSE]
Slots == {1, 2}

\* res.status(status).json(body)
Respond(r, status, body) ==
    [r EXCEPT !.pc = "done", !.status = status, !.body = body, !.sent = r.sent + 1]

\* lines 334-348: trace, cache write, telemetry, response.  [req, cache]
Finish_CacheReports(r, c, result, conf, t) ==
    LET traced == SetPipeline(result, [set |-> TRUE, source |-> "", n8n |-> r.n8n])
    IN [req |-> [Respond(r, 200, traced) EXCEPT
                    !.fx = r.fx \cup {"cacheSet", "log"}
                                \cup (IF conf.supabase THEN {"logFetch"} ELSE {}),
                    !.log = IF conf.supabase THEN "pending" ELSE ""],
        cache |-> cacheSet(c, IF r.key # NoKey THEN r.key
                              ELSE CacheKeys[r.b],
                           traced, t)]

Finish_SkipFallbacks(r, c, result, conf, t) ==
    LET traced == SetPipeline(result, [set |-> TRUE, source |-> "", n8n |-> r.n8n])
        keep == r.key # NoKey /\ result.src \notin {"raw", "demo", "claudeText", "unstructured"}
    IN [req |-> [Respond(r, 200, traced) EXCEPT
                    !.fx = r.fx \cup (IF keep THEN {"cacheSet"} ELSE {})
                                \cup {"log"}
                                \cup (IF conf.supabase THEN {"logFetch"} ELSE {}),
                    !.log = IF conf.supabase THEN "pending" ELSE ""],
        cache |-> IF keep THEN cacheSet(c, r.key, traced, t) ELSE c]

Finish(r, c, result, conf, t) ==
    LET traced == SetPipeline(result, [set |-> TRUE, source |-> "", n8n |-> r.n8n])
    IN [req |-> [Respond(r, 200, traced) EXCEPT
                    !.fx = r.fx \cup (IF r.key # NoKey THEN {"cacheSet"} ELSE {})
                                \cup {"log"}
                                \cup (IF conf.supabase THEN {"logFetch"} ELSE {}),
                    !.log = IF conf.supabase THEN "pending" ELSE ""],
        cache |-> IF r.key # NoKey THEN cacheSet(c, r.key, traced, t) ELSE c]

\* logSearch after its fetch (lines 194-215): the await is inside a try whose
\* catch only writes to the console
LogSettle_Unhandled(r, c, outcome) ==
    [req |-> IF outcome = "ok" THEN [r EXCEPT !.log = outcome]
             ELSE [Respond(r, 500, ErrorBody("search failed")) EXCEPT !.log = outcome],
     cache |-> c]

LogSettle(r, c, outcome) == [req |-> [r EXCEPT !.log = outcome], cache |-> c]

\* lines 350-355: the catch of the handler
Catch(r, c) == [req |-> Respond(r, 500, ErrorBody("search failed")), cache |-> c]

\* claudeAnalyze up to its fetch (lines 621-628), with the search result sr in
\* r.sr: "text", "empty" (the provider answered with no text) or "null"
ClaudeStart(r, c, conf, t) ==
    LET body == Bodies[r.b] IN
    IF ~conf.anthropic
    THEN IF r.sr = "text"
         THEN Finish([r EXCEPT !.cl = "nokey"], c, formatRawResults(r.b), conf, t)
         ELSE Finish([r EXCEPT !.cl = "nokey"], c,
                     getDemoResult(RoleType(body.type), r.b), conf, t)
    ELSE [req |-> [r EXCEPT !.pc = "claude", !.fx = r.fx \cup {"claude"}], cache |-> c]

\* the fallback of claudeAnalyze when the structuring call failed
\* (lines 729-737 and 814-825)
ClaudeFailed_AlwaysDemo(r, c, conf, t) ==
    Finish(r, c, getDemoResult(RoleType(Bodies[r.b].type), r.b), conf, t)

ClaudeFailed_Throws(r, c, conf, t) == Catch(r, c)

ClaudeFailed(r, c, conf, t) ==
    IF r.sr = "text"
    THEN Finish(r, c, formatRawResults(r.b), conf, t)
    ELSE Finish(r, c, getDemoResult(RoleType(Bodies[r.b].type), r.b), conf, t)

\* SEARCH_HANDLERS[type](data) up to its first fetch (lines 224-229, 368-427,
\* 430-433, 546-550); r.n8n holds the outcome of the proxy attempt
DirectStart(r, c, conf, t) ==
    LET body == Bodies[r.b]
        countries == Prop(body.data, "countries")
        d == [r EXCEPT !.fx = r.fx \cup {"direct"}]
    IN
    IF body.type = "report"
    THEN IF ~conf.anthropic
         THEN Finish(d, c, getDemoReport(d.b), conf, t)
         ELSE [req |-> [d EXCEPT !.pc = "report", !.fx = d.fx \cup {"report"}],
               cache |-> c]
    ELSE IF body.type = "clinics"
            /\ (countries.t = "undefined" \/ (countries.t = "str" /\ StrLen(countries) > 0))
    THEN Catch(d, c)        \* countries.length / countries.join throws a TypeError
    ELSE IF conf.perplexity
    THEN [req |-> [d EXCEPT !.pc = "search", !.fx = d.fx \cup {"search"}], cache |-> c]
    ELSE ClaudeStart([d EXCEPT !.sr = "null"], c, conf, t)

\* lines 322-332 and 840-849: the proxy is tried when it is configured and has
\* a webhook for the type
PipelineStart_DirectFirst(r, c, conf, t) ==
    DirectStart([r EXCEPT !.n8n = IF conf.n8n THEN "failed" ELSE "skipped"], c, conf, t)

PipelineStart(r, c, conf, t) ==
    IF conf.n8n /\ Bodies[r.b].type \in {"research", "symptoms", "clinics"}
    THEN [req |-> [r EXCEPT !.pc = "proxy", !.fx = r.fx \cup {"proxy"}], cache |-> c]
    ELSE DirectStart([r EXCEPT !.n8n = IF conf.n8n THEN "failed" ELSE "skipped"],
                     c, conf, t)

\* lines 299-332: what an admitted request does up to its first await
Serve_NoShortCircuit(r, c, conf, t) ==
    LET look == Lookup(c, r.b, t)
        r1 == [r EXCEPT !.key = look.key, !.fx = r.fx \cup look.fx]
    IN IF look.hit
       THEN [req |-> Respond(r1, 200, look.data), cache |-> look.cache]
       ELSE PipelineStart(r1, look.cache, conf, t)

Serve(r, c, conf, t) ==
    LET body == Bodies[r.b]
        look == Lookup(c, r.b, t)
        r1 == [r EXCEPT !.key = look.key, !.fx = r.fx \cup look.fx]
    IN
    IF look.hit
    THEN [req |-> Respond(r1, 200, look.data), cache |-> look.cache]
    ELSE IF ~conf.perplexity /\ ~conf.anthropic
    THEN [req |-> Respond(r1, 200,
                          [(IF body.type = "report" THEN getDemoReport(r.b)
                            ELSE getDemoResult(body.type, r.b)) EXCEPT !.isDemo = TRUE]),
          cache |-> look.cache]
    ELSE PipelineStart(r1, look.cache, conf, t)

-----------------------------------------------------------------------------
(* Observers: what the claims speak of, kept apart from the code's state.  *)

NoOp == [op |-> "none"]

\* key moved to the most recent end of the recency order r
Touch(r, key) == Append(SelectSeq(r, LAMBDA k : k # key), key)
\* the recency order restricted to the keys still cached
Restrict(r, c) == SelectSeq(r, LAMBDA k : k \in Keys(c))

NotStored == [at |-> -1, read |-> FALSE]
\* the store records of the keys still cached
Forget(st, c) == [k \in DOMAIN st |-> IF k \in Keys(c) THEN st[k] ELSE NotStored]

\* the smallest ts of the cache c (c is not empty)
OldestTs(c) == CHOOSE t \in {c[i].ts : i \in 1..Len(c)} :
                   \A i \in 1..Len(c) : t <= c[i].ts

NoCalls == [start |-> 0, n |-> 0, last |-> 0]
\* the window of a client after one more call at time t (section 4.2 of the
\* design: a call opens a window when there is none or W has passed)
CountCall(w, t) ==
    IF w.n = 0 \/ t - w.start > RATE_LIMIT_WINDOW_MS
    THEN [start |-> t, n |-> 1, last |-> w.last]
    ELSE [start |-> w.start, n |-> w.n + 1, last |-> w.last]

\* no call of extractJSON is under way
NoExtraction == [pc |-> "none"]

InitCommon ==
    /\ now = 0
    /\ ticks = 0
    /\ cache = <<>>
    /\ rateLimitMap = [ip \in IPs |-> NoWindow]
    /\ req = [s \in Slots |-> Idle]
    /\ lastOp = NoOp
    /\ recency = <<>>
    /\ storedAt = [k \in TestKeys |-> NotStored]
    /\ calls = [ip \in IPs |-> NoCalls]
    /\ rateLimitStore = [ip \in IPs |-> NoWindow]
    /\ ownStore = [name \in Limiters |-> [ip \in IPs |-> NoWindow]]

\* the clock advances by d
Tick(d) ==
    /\ ticks < MaxTicks
    /\ now' = now + d
    /\ ticks' = ticks + 1
    /\ lastOp' = NoOp
    /\ UNCHANGED <<cache, rateLimitMap, cfg, req, recency, storedAt, calls, ex, rateLimitStore, ownStore>>

-----------------------------------------------------------------------------
(* SpecCache: cacheSet, cacheGet and the sweep called in any order, at any *)
(* time, with any key.                                                     *)

CallCacheSet(key, data) ==
    LET full == ~cacheHas(cache, key) /\ Len(cache) >= CACHE_MAX_SIZE IN
    /\ cache' = cacheSet(cache, key, data, now)
    /\ lastOp' = [op |-> "cacheSet", key |-> key, full |-> full,
                  had |-> cacheHas(cache, key),
                  readOlder |-> full /\ cacheEntry(cache, recency[1]).ts > OldestTs(cache)]
    /\ recency' = Restrict(Touch(recency, key), cache')
    /\ storedAt' = Forget([storedAt EXCEPT ![key] = [at |-> now, read |-> FALSE]], cache')
    /\ UNCHANGED <<now, ticks, rateLimitMap, cfg, req, calls, ex, rateLimitStore, ownStore>>

CallCacheGet(key) ==
    LET r == cacheGet(cache, key, now) IN
    /\ cache' = r.cache
    /\ lastOp' = [op |-> "cacheGet", key |-> key, data |-> r.data, stored |-> storedAt[key]]
    /\ recency' = Restrict(IF r.data # Null THEN Touch(recency, key) ELSE recency, cache')
    /\ storedAt' = Forget(IF r.data # Null
                          THEN [storedAt EXCEPT ![key].read = TRUE]
                          ELSE storedAt, cache')
    /\ UNCHANGED <<now, ticks, rateLimitMap, cfg, req, calls, ex, rateLimitStore, ownStore>>

CacheSweepTimer ==
    /\ cache' = cacheSweep(cache, now)
    /\ lastOp' = NoOp
    /\ recency' = Restrict(recency, cache')
    /\ storedAt' = Forget(storedAt, cache')
    /\ UNCHANGED <<now, ticks, rateLimitMap, cfg, req, calls, ex, rateLimitStore, ownStore>>

NextCache ==
    \/ \E key \in TestKeys, data \in TestData : CallCacheSet(key, data)
    \/ \E key \in TestKeys : CallCacheGet(key)
    \/ CacheSweepTimer
    \/ \E d \in CacheSteps : Tick(d)

InitCache == InitCommon /\ cfg = NoConfig /\ ex = NoExtraction

SpecCache == InitCache /\ [][NextCache]_vars

\* C1: after any sequence of cacheSet, cacheGet and sweep calls the cache holds
\* at most CACHE_MAX_SIZE entries.
C1_CacheBounded == Len(cache) <= CACHE_MAX_SIZE

\* a cacheSet of a new key has just found the cache full, and left it full
C1_Witness ==
    /\ lastOp.op = "cacheSet" /\ lastOp.full
    /\ Len(cache) = CACHE_MAX_SIZE

\* C2: a cacheSet of a new key into a full cache evicts exactly one entry, the
\* least recently used one (last cacheSet or last successful cacheGet), and
\* leaves every other entry as it was.
C2_EvictsLeastRecentlyUsed ==
    [][(lastOp'.op = "cacheSet" /\ lastOp'.full) =>
          /\ Len(recency) = Len(cache)
          /\ Keys(cache') = (Keys(cache) \ {recency[1]}) \cup {lastOp'.key}
          /\ Len(cache') = Len(cache)
          /\ \A k \in Keys(cache) \ {recency[1]} :
                 cacheEntry(cache', k) = cacheEntry(cache, k)]_vars

\* an eviction whose victim was stored later than a surviving entry: the
\* survivor had been read since
C2_Witness ==
    /\ lastOp.op = "cacheSet" /\ lastOp.full /\ lastOp.readOlder
    /\ lastOp.key \in Keys(cache)

\* C3: cacheGet returns an entry only while its age since cacheSet is at most
\* the TTL; later than that it reports the entry absent and removes it, also
\* when the entry was read in between.
C3_NoStaleEntry ==
    lastOp.op = "cacheGet" =>
        /\ lastOp.data # Null => (lastOp.stored.at # -1
                                  /\ now - lastOp.stored.at <= CACHE_TTL_MS)
        /\ (lastOp.stored.at # -1 /\ now - lastOp.stored.at > CACHE_TTL_MS) =>
               (lastOp.data = Null /\ ~cacheHas(cache, lastOp.key))

\* an entry that was read successfully is reported absent once its age
\* exceeds the TTL
C3_Witness ==
    /\ lastOp.op = "cacheGet" /\ lastOp.data = Null
    /\ lastOp.stored.at # -1 /\ lastOp.stored.read
    /\ now - lastOp.stored.at > CACHE_TTL_MS
    /\ ~cacheHas(cache, lastOp.key)

-----------------------------------------------------------------------------
(* SpecRate: isRateLimited and the cleanup called in any order, at any     *)
(* time, by any client.                                                    *)

CallIsRateLimited(ip) ==
    LET r == isRateLimited(rateLimitMap, ip, now)
        w == CountCall(calls[ip], now) IN
    /\ w.n <= RATE_LIMIT_MAX + ExtraCalls
    /\ rateLimitMap' = r.map
    /\ calls' = [calls EXCEPT ![ip] = [w EXCEPT !.last = now]]
    /\ lastOp' = [op |-> "isRateLimited", ip |-> ip, limited |-> r.limited,
                  expired |-> calls[ip].n > 0
                              /\ now - calls[ip].start > RATE_LIMIT_WINDOW_MS,
                  before |-> calls[ip].n]
    /\ UNCHANGED <<now, ticks, cache, cfg, req, recency, storedAt, ex, rateLimitStore, ownStore>>

RateSweepTimer ==
    /\ rateLimitMap' = rateSweep(rateLimitMap, now)
    /\ lastOp' = NoOp
    /\ UNCHANGED <<now, ticks, cache, cfg, req, recency, storedAt, calls, ex, rateLimitStore, ownStore>>

NextRate ==
    \/ \E ip \in IPs : CallIsRateLimited(ip)
    \/ RateSweepTimer
    \/ \E d \in RateSteps : Tick(d)

InitRate == InitCommon /\ cfg = NoConfig /\ ex = NoExtraction

SpecRate == InitRate /\ [][NextRate]_vars

\* C4: within one window of a client the first RATE_LIMIT_MAX calls are not
\* limited and every later call of that window is, whatever other clients and
\* the cleanup do in between.
C4_LimitedAfterMax ==
    lastOp.op = "isRateLimited" =>
        (lastOp.limited <=> calls[lastOp.ip].n > RATE_LIMIT_MAX)

\* the call after the last allowed one of a window is limited, while the other
\* client is in a window of its own
C4_Witness ==
    /\ lastOp.op = "isRateLimited" /\ lastOp.limited
    /\ calls[lastOp.ip].n = RATE_LIMIT_MAX + 1
    /\ \E ip \in IPs \ {lastOp.ip} : calls[ip].n \in 1..RATE_LIMIT_MAX

\* C5: once more than W has passed since a client's window started, its next
\* call is not limited and opens a new window with count 1, whatever the
\* number of calls made in the old window.
C5_WindowExpiresByTime ==
    (lastOp.op = "isRateLimited" /\ lastOp.expired) =>
        /\ ~lastOp.limited
        /\ rateLimitMap[lastOp.ip] = [present |-> TRUE, windowStart |-> now, count |-> 1]

\* a client that was being limited is admitted again after its window expired
C5_Witness ==
    /\ lastOp.op = "isRateLimited" /\ lastOp.expired
    /\ lastOp.before > RATE_LIMIT_MAX
    /\ ~lastOp.limited
    /\ rateLimitMap[lastOp.ip].count = 1

-----------------------------------------------------------------------------
(* Spec: requests arrive at the handler and run concurrently.  A handler   *)
(* runs without interruption from one await of a network call to the next; *)
(* the timers run between those stretches.                                 *)

Methods == {"GET", "OPTIONS"}
HandlerIPs == {"ip1"}
HandlerBodies == {1, 2, 3, 4, 5, 6, 7, 12}
HandlerConfigs == {NoConfig,
                   [perplexity |-> TRUE, anthropic |-> TRUE, n8n |-> TRUE, supabase |-> TRUE],
                   [perplexity |-> TRUE, anthropic |-> FALSE, n8n |-> FALSE,
                    supabase |-> FALSE]}
\* how an upstream call can fail: a non-2xx status, the abort of its timer, a
\* network error, a body that is not JSON
Failures == {"status", "timeout", "network", "malformed"}
ProxyOutcomes == {"object", "scalar"} \cup Failures
SearchOutcomes == {"text", "empty"} \cup Failures
ClaudeOutcomes == {"items", "english", "text", "short"} \cup Failures
FixOutcomes == {"items", "english", "noitems", "unparsable"} \cup Failures
ReportOutcomes == {"sections", "text"} \cup Failures
LogOutcomes == {"ok", "failed"}
Calls == {"proxy", "search", "claude", "fix", "report"}

\* the slot a new invocation takes: the lowest one not suspended
FreeSlot(s) ==
    /\ req[s].pc \in {"free", "done"}
    /\ \A s2 \in Slots : s2 < s => req[s2].pc \notin {"free", "done"}

\* the cache holds, unexpired, the result stored for a request with body b
Stored(c, b, t) ==
    /\ Validate(Bodies[b]) = 0
    /\ LET entry == cacheEntry(c, CacheKeys[b])
       IN entry # Null /\ ~(t - entry.ts > CACHE_TTL_MS) /\ entry.data.q = b

\* lines 262-332 and 350-355: a POST request up to its first await.
\* [req, cache, map]
Handle_LogRejected(r, m, c, conf, t) ==
    LET a == Admission(m, r.ip, Bodies[r.b], t)
        r1 == [r EXCEPT !.fx = a.fx]
    IN IF a.status # 0
       THEN [req |-> Respond([r1 EXCEPT !.fx = a.fx \cup {"log"}], a.status,
                             ErrorBody("rejected")),
             cache |-> c, map |-> a.map]
       ELSE LET out == Serve(r1, c, conf, t)
            IN [req |-> out.req, cache |-> out.cache, map |-> a.map]

Handle(r, m, c, conf, t) ==
    LET a == Admission(m, r.ip, Bodies[r.b], t)
        r1 == [r EXCEPT !.fx = a.fx]
    IN IF a.status # 0
       THEN [req |-> Respond(r1, a.status, ErrorBody("rejected")),
             cache |-> c, map |-> a.map]
       ELSE LET out == Serve(r1, c, conf, t)
            IN [req |-> out.req, cache |-> out.cache, map |-> a.map]

\* the handler is invoked with a POST request; the invocation is kept in slot s
Invoke(s, ip, b) ==
    LET w == CountCall(calls[ip], now)
        r == [Idle EXCEPT !.method = "POST", !.ip = ip, !.b = b, !.nth = w.n,
                          !.seen = Stored(cache, b, now)]
    IN
    /\ req[s].pc \in {"free", "done"}
    /\ w.n <= RATE_LIMIT_MAX + 1
    /\ calls' = [calls EXCEPT ![ip] = w]
    /\ \E out \in {Handle(r, rateLimitMap, cache, cfg, now)} :
          /\ req' = [req EXCEPT ![s] = out.req]
          /\ cache' = out.cache
          /\ rateLimitMap' = out.map
    /\ lastOp' = NoOp
    /\ UNCHANGED <<now, ticks, cfg, recency, storedAt, ex, rateLimitStore, ownStore>>

Arrive(s, ip, b) == FreeSlot(s) /\ Invoke(s, ip, b)

\* lines 259-260
ArriveOther(s, method) ==
    /\ FreeSlot(s)
    /\ req' = [req EXCEPT ![s] =
                  Respond([Idle EXCEPT !.method = method],
                          IF method = "OPTIONS" THEN 200 ELSE 405,
                          IF method = "OPTIONS" THEN NoResult
                          ELSE ErrorBody("Method not allowed"))]
    /\ lastOp' = NoOp
    /\ UNCHANGED <<now, ticks, cache, rateLimitMap, cfg, recency, storedAt, calls, ex, rateLimitStore, ownStore>>

\* a suspended invocation goes on with out.req, the cache becomes out.cache
Resume(s, out) ==
    /\ \E o \in {out} :
          /\ req' = [req EXCEPT ![s] = [o.req EXCEPT !.head = FALSE]]
          /\ cache' = o.cache
    /\ lastOp' = NoOp
    /\ UNCHANGED <<now, ticks, rateLimitMap, cfg, recency, storedAt, calls, ex, rateLimitStore, ownStore>>

\* how a call can still end: the timer is cleared as soon as fetch resolves
\* with the status line (clearTimeout at lines 481, 577, 727, 775, 864), so
\* after that the call ends neither by its timeout nor by a non-2xx status
Possible(r, outcome) == r.head => outcome \notin {"timeout", "status"}

\* fetch resolves with a 2xx status for the pending call of invocation s; the
\* body (response.json()) is still to come
HeadersDone(s) ==
    /\ req[s].pc \in Calls
    /\ ~req[s].head
    /\ req' = [req EXCEPT ![s].head = TRUE]
    /\ lastOp' = NoOp
    /\ UNCHANGED <<now, ticks, cache, rateLimitMap, cfg, recency, storedAt, calls, ex, rateLimitStore, ownStore>>

\* lines 851-881: the webhook answered, or the call failed or timed out
ProxyDone(s, outcome) ==
    /\ req[s].pc = "proxy"
    /\ Possible(req[s], outcome)
    /\ Resume(s, IF outcome \in Failures
                 THEN DirectStart([req[s] EXCEPT !.n8n = "failed"], cache, cfg, now)
                 ELSE Finish([req[s] EXCEPT !.n8n = "success"], cache,
                             Result(outcome, "n8n", 1, req[s].b), cfg, now))

\* lines 552-599: the search provider answered, or the call failed or timed out
SearchDone(s, outcome) ==
    /\ req[s].pc = "search"
    /\ Possible(req[s], outcome)
    /\ Resume(s, ClaudeStart([req[s] EXCEPT
                                 !.sr = IF outcome \in Failures THEN "null" ELSE outcome],
                             cache, cfg, now))

\* lines 715-825: the structuring call answered, or it failed or timed out
ClaudeDone(s, outcome) ==
    LET r == [req[s] EXCEPT !.cl = IF outcome \in Failures THEN "failed" ELSE outcome]
    IN
    /\ req[s].pc = "claude"
    /\ Possible(req[s], outcome)
    /\ Resume(s,
         CASE outcome \in Failures -> ClaudeFailed(r, cache, cfg, now)
           [] outcome = "items" ->
                Finish(r, cache, Result("object", "claude", 2, r.b), cfg, now)
           [] outcome = "english" ->
                [req |-> [r EXCEPT !.pc = "fix", !.fx = @ \cup {"fix"},
                                   !.parsed = Result("object", "claude", 2, r.b)],
                 cache |-> cache]
           [] outcome = "text" ->
                Finish(r, cache, Result("object", "claudeText", 1, r.b), cfg, now)
           [] outcome = "short" ->
                Finish(r, cache, Result("object", "unstructured", 0, r.b), cfg, now))

\* lines 757-790: the translation call answered (with items in Georgian, with
\* items that are still mostly English, with an object without items, with a
\* text extractJSON makes nothing of), or it failed or timed out
\* fixParsed for the outcomes that have items (line 780)
fixParsed(outcome, q) ==
    Result("object", IF outcome = "items" THEN "claudeFix" ELSE "claudeFixEnglish", 2, q)

FixDone_Remeasure(s, outcome) ==
    /\ req[s].pc = "fix"
    /\ Possible(req[s], outcome)
    /\ Resume(s, IF outcome = "english"
                 THEN [req |-> [req[s] EXCEPT !.parsed = fixParsed(outcome, req[s].b)],
                       cache |-> cache]
                 ELSE Finish([req[s] EXCEPT !.parsed = NoResult], cache,
                             IF outcome = "items" THEN fixParsed(outcome, req[s].b)
                             ELSE req[s].parsed,
                             cfg, now))

FixDone_Discard(s, outcome) ==
    /\ req[s].pc = "fix"
    /\ Possible(req[s], outcome)
    /\ Resume(s, IF outcome \in {"items", "english"}
                 THEN Finish([req[s] EXCEPT !.parsed = NoResult], cache,
                             fixParsed(outcome, req[s].b), cfg, now)
                 ELSE ClaudeFailed([req[s] EXCEPT !.parsed = NoResult], cache, cfg, now))

FixDone(s, outcome) ==
    /\ req[s].pc = "fix"
    /\ Possible(req[s], outcome)
    /\ Resume(s, Finish([req[s] EXCEPT !.parsed = NoResult], cache,
                        IF outcome \in {"items", "english"}
                        THEN fixParsed(outcome, req[s].b)
                        ELSE req[s].parsed,
                        cfg, now))

\* lines 464-505: the report call answered, or it failed or timed out
ReportDone(s, outcome) ==
    /\ req[s].pc = "report"
    /\ Possible(req[s], outcome)
    /\ Resume(s, Finish(req[s], cache,
                        CASE outcome = "sections" ->
                                Result("object", "report", 0, req[s].b)
                          [] outcome = "text" ->
                                Result("object", "reportText", 0, req[s].b)
                          [] outcome \in Failures -> getDemoReport(req[s].b),
                        cfg, now))

\* lines 194-215: the telemetry fetch of an answered request settles
LogDone(s, outcome) ==
    /\ req[s].log = "pending"
    /\ Resume(s, LogSettle(req[s], cache, outcome))

NextWith(slots, ips, bodies, steps) ==
    \/ \E s \in slots, ip \in ips, b \in bodies : Arrive(s, ip, b)
    \/ \E s \in slots, method \in Methods : ArriveOther(s, method)
    \/ \E s \in slots, outcome \in ProxyOutcomes : ProxyDone(s, outcome)
    \/ \E s \in slots, outcome \in SearchOutcomes : SearchDone(s, outcome)
    \/ \E s \in slots, outcome \in ClaudeOutcomes : ClaudeDone(s, outcome)
    \/ \E s \in slots, outcome \in FixOutcomes : FixDone(s, outcome)
    \/ \E s \in slots, outcome \in ReportOutcomes : ReportDone(s, outcome)
    \/ \E s \in slots, outcome \in LogOutcomes : LogDone(s, outcome)
    \/ CacheSweepTimer
    \/ RateSweepTimer
    \/ \E d \in steps : Tick(d)

Next == NextWith({1}, HandlerIPs, HandlerBodies, CacheSteps)

Init == InitCommon /\ cfg \in HandlerConfigs /\ ex = NoExtraction

Spec == Init /\ [][Next]_vars

\* SpecPipeline: a few requests of every type that pass the validation, under
\* every configuration of the credentials, within a span of time too short
\* for the timers to fire.
PipelineBodies == {7, 9, 10, 11, 12}
MaxRequests == 2

NextPipeline ==
    \/ \E ip \in HandlerIPs, b \in PipelineBodies :
          calls[ip].n < MaxRequests /\ Arrive(1, ip, b)
    \/ \E outcome \in ProxyOutcomes : ProxyDone(1, outcome)
    \/ \E outcome \in SearchOutcomes : SearchDone(1, outcome)
    \/ \E outcome \in ClaudeOutcomes : ClaudeDone(1, outcome)
    \/ \E outcome \in FixOutcomes : FixDone(1, outcome)
    \/ \E outcome \in ReportOutcomes : ReportDone(1, outcome)
    \/ \E outcome \in LogOutcomes : LogDone(1, outcome)

InitPipeline == InitCommon /\ cfg \in Configs /\ ex = NoExtraction

SpecPipeline == InitPipeline /\ [][NextPipeline]_vars

\* a POST request that has been answered
Answered(r) == r.pc = "done" /\ r.method = "POST"
\* a POST request rejected by the validation or by the rate limiter
Rejected(r) == Answered(r) /\ r.status \in {400, 429}

\* C6: the (RATE_LIMIT_MAX + 1)th POST request of a client within one window
\* is answered 429, and an earlier one is not, whether or not the body of the
\* request passes the validation.
C6_ThrottledWhateverTheBody ==
    \A s \in Slots :
        Answered(req[s]) => (req[s].status = 429 <=> req[s].nth > RATE_LIMIT_MAX)

C6_Witness ==
    \E s \in Slots :
        /\ Answered(req[s])
        /\ req[s].b \in Invalid
        /\ req[s].nth = RATE_LIMIT_MAX + 1
        /\ req[s].status = 429

\* C7, as the specification states it: a request that fails the validation is
\* answered 400 without the rate limiter having been consulted.
C7_ValidationBeforeRateCheck ==
    \A s \in Slots :
        Answered(req[s]) /\ Validate(Bodies[req[s].b]) = 400
            => req[s].status = 400 /\ "rate" \notin req[s].fx

\* C7, amended: the rate limiter is consulted before the validation.  Every
\* POST request, valid or not, is counted in the window of its client, and a
\* request is answered 400 only when the rate limiter has let it pass.
C7_RateCheckBeforeValidation ==
    /\ \A ip \in IPs :
          rateLimitMap[ip].present
              => /\ rateLimitMap[ip].count = calls[ip].n
                 /\ rateLimitMap[ip].windowStart = calls[ip].start
    /\ \A s \in Slots :
          Answered(req[s]) /\ req[s].status = 400
              => "rate" \in req[s].fx /\ req[s].nth <= RATE_LIMIT_MAX

C7_Witness ==
    \E s \in Slots :
        /\ Answered(req[s])
        /\ Validate(Bodies[req[s].b]) = 400
        /\ req[s].status = 400
        /\ req[s].nth = RATE_LIMIT_MAX
        /\ rateLimitMap[req[s].ip].count = RATE_LIMIT_MAX

\* C8: a request rejected by the validation or by the rate limiter has called
\* neither cacheGet nor cacheSet, neither the proxy nor a provider nor
\* logSearch, and the step that rejects it leaves the cache as it was.
C8_RejectionHasNoEffect ==
    /\ [](\A s \in Slots : Rejected(req[s]) => req[s].fx \subseteq {"rate"})
    /\ [][(calls' # calls /\ \E s \in Slots : FreeSlot(s) /\ Rejected(req'[s]))
            => cache' = cache]_vars

C8_Witness ==
    \E s \in Slots :
        /\ Rejected(req[s])
        /\ req[s].b = 5
        /\ req[s].status = 400
        /\ cache # <<>>

\* C9: a malformed POST request (no body, no type, no data, or an unknown
\* type) is answered with a 4xx status.
C9_MalformedIsClientError ==
    \A s \in Slots :
        Answered(req[s]) /\ req[s].b \in Malformed => req[s].status \in 400..499

\* C10: a request that finds, unexpired, the result stored for an identical
\* request is answered 200 from the cache, with _pipeline.source = 'cache' and
\* without a proxy or provider call, unless the rate limiter rejects it.
C10_RepeatAnsweredFromCache ==
    \A s \in Slots :
        Answered(req[s]) /\ req[s].seen /\ req[s].status # 429
            => /\ req[s].status = 200
               /\ req[s].body.cached
               /\ req[s].body.pipeline.set
               /\ req[s].body.pipeline.source = "cache"
               /\ req[s].fx \cap Calls = {}

\* the invocation r serves a request of type report
IsReport(r) == r.method = "POST" /\ Bodies[r.b].type = "report"

\* C11: a request of type report neither reads nor writes the cache.  No cache
\* entry has a report key or holds a result built for a report request, a
\* report request calls neither cacheGet nor cacheSet and is not answered with
\* a cached object, and no step of a report request changes the cache.
C11_ReportsBypassCache ==
    /\ [](/\ \A i \in 1..Len(cache) :
               /\ cache[i].key.type # "report"
               /\ Bodies[cache[i].data.q].type # "report"
          /\ \A s \in Slots :
               IsReport(req[s])
                   => /\ req[s].fx \cap {"cacheGet", "cacheSet"} = {}
                      /\ ~req[s].body.cached
                      /\ req[s].key = NoKey)
    /\ [][\A s \in Slots : req'[s] # req[s] /\ IsReport(req'[s]) => cache' = cache]_vars

C11_Witness ==
    \E s \in Slots :
        /\ IsReport(req[s])
        /\ Answered(req[s])
        /\ req[s].status = 200
        /\ req[s].body.src = "report"
        /\ cache # <<>>

\* the invocation r serves a POST request that the rate limiter and the
\* validation let pass
Admitted(r) ==
    r.method = "POST" /\ Validate(Bodies[r.b]) = 0 /\ r.nth <= RATE_LIMIT_MAX

\* C12: without PERPLEXITY_API_KEY and ANTHROPIC_API_KEY every admitted request
\* is answered at once, 200 with isDemo = true (and with items for type
\* research), having called neither the proxy nor a provider, neither cacheSet
\* nor logSearch; the cache stays empty.
C12_DemoShortCircuit ==
    ~cfg.perplexity /\ ~cfg.anthropic
        => /\ cache = <<>>
           /\ \A s \in Slots :
                Admitted(req[s])
                    => /\ req[s].pc = "done"
                       /\ req[s].status = 200
                       /\ req[s].body.isDemo
                       /\ req[s].body.src \in {"demo", "demoReport"}
                       /\ Bodies[req[s].b].type = "research" => req[s].body.items > 0
                       /\ req[s].fx \subseteq {"rate", "cacheGet"}
                       /\ req[s].log = ""

C12_Witness ==
    /\ ~cfg.perplexity /\ ~cfg.anthropic /\ cfg.n8n /\ cfg.supabase
    /\ \E s \in Slots :
          /\ Admitted(req[s])
          /\ Bodies[req[s].b].type = "research"
          /\ req[s].status = 200
          /\ req[s].body.isDemo
          /\ req[s].body.items = 3

\* C13: every 200 response to a POST request carries a _pipeline trace whose
\* source field names the stage that produced it.
C13_EveryAnswerIsTraced ==
    \A s \in Slots :
        req[s].method = "POST" /\ req[s].pc = "done" /\ req[s].status = 200
            => /\ req[s].body.pipeline.set
               /\ req[s].body.pipeline.source # ""

\* searchClinics(data) reads countries.length (line 416): the request b makes
\* the direct handler throw before any provider is called
ThrowsOnInput(b) ==
    /\ Bodies[b].type = "clinics"
    /\ LET countries == Prop(Bodies[b].data, "countries")
       IN countries.t = "undefined" \/ (countries.t = "str" /\ StrLen(countries) > 0)

\* the stages of the pipeline in the order a request goes through them
StageRank(pc) ==
    CASE pc = "proxy" -> 1 [] pc = "search" -> 2 [] pc = "claude" -> 3
      [] pc = "fix" -> 4 [] pc = "report" -> 4 [] pc = "done" -> 5 [] OTHER -> 0

C15_AdmittedIsAnswered200 ==
    \A s \in Slots :
        Admitted(req[s]) /\ req[s].pc = "done" => req[s].status = 200

\* an upstream call of the invocation r failed, or the structuring provider
\* answered with text from which no result with items could be extracted
Degraded(r) ==
    \/ r.n8n = "failed" /\ "proxy" \in r.fx
    \/ r.sr = "null" /\ "search" \in r.fx
    \/ r.cl \in {"failed", "text", "short"}

\* C16: a research, symptoms or clinics request that was answered 200 after
\* an upstream call or the structured extraction failed has at least one
\* result item.
C16_FallbackIsNonEmpty ==
    \A s \in Slots :
        /\ Admitted(req[s]) /\ ~IsReport(req[s])
        /\ req[s].pc = "done" /\ req[s].status = 200
        /\ Degraded(req[s])
        => req[s].body.items >= 1

\* the direct handler and the calls it makes
DirectCalls == {"direct", "search", "claude", "fix", "report"}
\* proxyToN8n has a webhook for the type of request b (lines 843-849)
HasWebhook(b) == Bodies[b].type \in {"research", "symptoms", "clinics"}
\* the invocation r went into the pipeline (lines 322-332): it was admitted,
\* missed the cache and a provider key is configured
InPipeline(r) ==
    /\ Admitted(r)
    /\ cfg.perplexity \/ cfg.anthropic
    /\ ~r.seen

\* C17: the proxy is attempted before the direct pipeline.  A request whose
\* proxy call returned a result is answered with it and calls no provider; a
\* request calls a provider only after its proxy call failed or when the proxy
\* is unconfigured (or has no webhook for the type), and in each of these
\* cases it does go on to the direct pipeline.
C17_ProxyBeforeDirect ==
    /\ [](\A s \in Slots :
            InPipeline(req[s])
                => /\ req[s].n8n = "success"
                        => /\ req[s].fx \cap DirectCalls = {}
                           /\ req[s].pc = "done" /\ req[s].body.src = "n8n"
                   /\ req[s].pc = "proxy"
                        => req[s].fx \cap DirectCalls = {} /\ req[s].n8n = ""
                   /\ cfg.n8n /\ HasWebhook(req[s].b) => "proxy" \in req[s].fx
                   /\ ~(cfg.n8n /\ HasWebhook(req[s].b))
                        => /\ "proxy" \notin req[s].fx
                           /\ req[s].n8n = IF cfg.n8n THEN "failed" ELSE "skipped"
                   /\ req[s].n8n \in {"failed", "skipped"} => "direct" \in req[s].fx)
    /\ [][\A s \in Slots, outcome \in Failures :
            ProxyDone(s, outcome)
                => req'[s].n8n = "failed" /\ "direct" \in req'[s].fx]_vars

C17_Witness ==
    \E s \in Slots :
        /\ InPipeline(req[s])
        /\ "proxy" \in req[s].fx /\ req[s].n8n = "failed"
        /\ {"direct", "search", "claude"} \subseteq req[s].fx
        /\ req[s].pc = "done" /\ req[s].status = 200

\* C18: when the structuring provider fails entirely (no credential, non-2xx,
\* timeout or exception), the result depends on the search outcome alone: the
\* single raw-text item if the search returned non-empty text, otherwise the
\* static demo content for the request type.
C18_StructuringFailureFallback ==
    \A s \in Slots :
        /\ Admitted(req[s]) /\ ~IsReport(req[s])
        /\ req[s].cl \in {"nokey", "failed"}
        => /\ req[s].pc = "done" /\ req[s].status = 200
           /\ LET expected == IF req[s].sr = "text"
                              THEN formatRawResults(req[s].b)
                              ELSE getDemoResult(Bodies[req[s].b].type, req[s].b)
              IN /\ req[s].body.src = expected.src
                 /\ req[s].body.items = expected.items
                 /\ req[s].body.q = req[s].b
                 /\ req[s].body.kind = "object"

C18_Witness ==
    \E s \in Slots :
        /\ Admitted(req[s]) /\ ~IsReport(req[s])
        /\ req[s].cl = "failed" /\ req[s].sr = "text"
        /\ req[s].pc = "done" /\ req[s].status = 200
        /\ req[s].body.src = "raw" /\ req[s].body.items = 1

\* C19: telemetry is fire-and-forget.  While the telemetry fetch of a request
\* is in flight the request is already answered 200, and the fetch settling
\* (fulfilled or rejected) changes neither the status nor the body of the
\* response, nor the cache; a fetch that never settles holds nothing back.
C19_TelemetryIsFireAndForget ==
    /\ [](\A s \in Slots :
            /\ req[s].log # "" => req[s].pc = "done" /\ req[s].status = 200
            /\ req[s].log # "" <=> "logFetch" \in req[s].fx)
    /\ [][\A s \in Slots, outcome \in LogOutcomes :
            LogDone(s, outcome)
                => /\ req'[s].pc = req[s].pc
                   /\ req'[s].status = req[s].status
                   /\ req'[s].body = req[s].body
                   /\ cache' = cache
                   /\ rateLimitMap' = rateLimitMap]_vars

C19_Witness ==
    \E s \in Slots :
        /\ req[s].log = "failed"
        /\ req[s].pc = "done" /\ req[s].status = 200
        /\ req[s].body.kind = "object"
        /\ cache # <<>>

-----------------------------------------------------------------------------
(* JSON extraction: part_003 lines 920-984.  Texts are sequences of UTF-16  *)
(* code units: 123 '{', 125 '}', 34 '"', 92 '\', 96 '`', 91 '[', 93 ']',    *)
(* 58 ':', 44 ',', 32 space, 10 newline.                                     *)

\* the one element of a singleton set
Pick(S) == CHOOSE x \in S : TRUE
Min(S) == CHOOSE x \in S : \A y \in S : x <= y
Max(S) == CHOOSE x \in S : \A y \in S : x >= y

\* cs.startsWith(w, i - 1)
StartsWith(cs, i, w) == i + Len(w) - 1 <= Len(cs) /\ SubSeq(cs, i, i + Len(w) - 1) = w

\* JSON.parse(str), line 978, for the JSON the texts of the model hold:
\* objects, arrays, strings with two-character escapes, integers, true, false
\* and null.  The Parse operators return [ok, v, pos]: the value that starts
\* at an index and the index after it.
Fail == [ok |-> FALSE, v |-> Undefined, pos |-> 0]

IsJsonSpace(c) == c \in {32, 10, 13, 9}
RECURSIVE SkipJsonSpace(_, _)
SkipJsonSpace(cs, i) ==
    IF i <= Len(cs) /\ IsJsonSpace(cs[i]) THEN SkipJsonSpace(cs, i + 1) ELSE i

\* the character an escape \c stands for: \" \\ \/ \b \f \n \r \t
Escapes ==
    [c \in {34, 92, 47, 98, 102, 110, 114, 116} |->
        CASE c = 98 -> 8 [] c = 102 -> 12 [] c = 110 -> 10 [] c = 114 -> 13
          [] c = 116 -> 9 [] OTHER -> c]

\* the string whose opening quote is at cs[i - 1]
RECURSIVE ParseString(_, _, _)
ParseString(cs, i, acc) ==
    IF i > Len(cs) THEN Fail
    ELSE IF cs[i] = 34 THEN [ok |-> TRUE, v |-> Str(acc, 0), pos |-> i + 1]
    ELSE IF cs[i] = 92
    THEN IF i + 1 <= Len(cs) /\ cs[i + 1] \in DOMAIN Escapes
         THEN ParseString(cs, i + 2, Append(acc, Escapes[cs[i + 1]]))
         ELSE Fail
    ELSE IF cs[i] < 32 THEN Fail
    ELSE ParseString(cs, i + 1, Append(acc, cs[i]))

RECURSIVE DigitsEnd(_, _)
DigitsEnd(cs, i) == IF i <= Len(cs) /\ cs[i] \in 48..57 THEN DigitsEnd(cs, i + 1) ELSE i

\* the integer that starts at cs[i]
ParseNumber(cs, i) ==
    Pick({ Pick({ IF e = d \/ (cs[d] = 48 /\ e > d + 1) THEN Fail
                  ELSE [ok |-> TRUE,
                        v |-> Num((IF d > i THEN -1 ELSE 1) * DigitsValue(SubSeq(cs, d, e - 1))),
                        pos |-> e]
                  : e \in {DigitsEnd(cs, d)} })
           : d \in {IF cs[i] = 45 THEN i + 1 ELSE i} })

\* obj[k] = v while parsing: a repeated key keeps its place and takes the last value
PutField(fields, k, v) ==
    IF \E i \in 1..Len(fields) : fields[i].k = k
    THEN [i \in 1..Len(fields) |-> IF fields[i].k = k THEN [k |-> k, v |-> v] ELSE fields[i]]
    ELSE Append(fields, [k |-> k, v |-> v])

RECURSIVE ParseValue(_, _)
RECURSIVE ParseElements(_, _, _)
RECURSIVE ParseMembers(_, _, _)
\* the value that starts at or after cs[i0]; the keys of a parsed object are
\* sequences of code units
ParseValue(cs, i0) ==
    Pick({ IF i > Len(cs) THEN Fail
           ELSE CASE cs[i] = 34 -> ParseString(cs, i + 1, <<>>)
                  [] cs[i] = 123 ->
                        Pick({ IF j <= Len(cs) /\ cs[j] = 125
                               THEN [ok |-> TRUE, v |-> Obj(<<>>), pos |-> j + 1]
                               ELSE ParseMembers(cs, j, <<>>)
                               : j \in {SkipJsonSpace(cs, i + 1)} })
                  [] cs[i] = 91 ->
                        Pick({ IF j <= Len(cs) /\ cs[j] = 93
                               THEN [ok |-> TRUE, v |-> List(<<>>), pos |-> j + 1]
                               ELSE ParseElements(cs, j, <<>>)
                               : j \in {SkipJsonSpace(cs, i + 1)} })
                  [] cs[i] = 45 \/ cs[i] \in 48..57 -> ParseNumber(cs, i)
                  [] StartsWith(cs, i, <<110, 117, 108, 108>>) ->
                        [ok |-> TRUE, v |-> JsNull, pos |-> i + 4]
                  [] StartsWith(cs, i, <<116, 114, 117, 101>>) ->
                        [ok |-> TRUE, v |-> Bool(TRUE), pos |-> i + 4]
                  [] StartsWith(cs, i, <<102, 97, 108, 115, 101>>) ->
                        [ok |-> TRUE, v |-> Bool(FALSE), pos |-> i + 5]
                  [] OTHER -> Fail
           : i \in {SkipJsonSpace(cs, i0)} })

\* the elements of an array from cs[i] on, after the elements acc
ParseElements(cs, i, acc) ==
    Pick({ IF ~r.ok THEN Fail
           ELSE Pick({ IF j > Len(cs) THEN Fail
                       ELSE IF cs[j] = 93
                       THEN [ok |-> TRUE, v |-> List(Append(acc, r.v)), pos |-> j + 1]
                       ELSE IF cs[j] = 44 THEN ParseElements(cs, j + 1, Append(acc, r.v))
                       ELSE Fail
                       : j \in {SkipJsonSpace(cs, r.pos)} })
           : r \in {ParseValue(cs, i)} })

\* the members of an object from cs[i0] on, after the members acc
ParseMembers(cs, i0, acc) ==
    Pick({ IF i > Len(cs) \/ cs[i] # 34 THEN Fail
           ELSE Pick({ IF ~k.ok THEN Fail
                ELSE Pick({ IF c > Len(cs) \/ cs[c] # 58 THEN Fail
                     ELSE Pick({ IF ~r.ok THEN Fail
                          ELSE Pick({ IF j > Len(cs) THEN Fail
                                      ELSE IF cs[j] = 125
                                      THEN [ok |-> TRUE,
                                            v |-> Obj(PutField(acc, k.v.pre, r.v)),
                                            pos |-> j + 1]
                                      ELSE IF cs[j] = 44
                                      THEN ParseMembers(cs, j + 1,
                                                        PutField(acc, k.v.pre, r.v))
                                      ELSE Fail
                                      : j \in {SkipJsonSpace(cs, r.pos)} })
                          : r \in {ParseValue(cs, c + 1)} })
                     : c \in {SkipJsonSpace(cs, k.pos)} })
                : k \in {ParseString(cs, i + 1, <<>>)} })
           : i \in {SkipJsonSpace(cs, i0)} })

\* JSON.parse(str): [ok, v]; ok is FALSE where JSON.parse throws
JsonParse(str) ==
    Pick({ Pick({ IF r.ok /\ SkipJsonSpace(cs, r.pos) = Len(cs) + 1
                  THEN [ok |-> TRUE, v |-> r.v]
                  ELSE [ok |-> FALSE, v |-> Undefined]
                  : r \in {ParseValue(cs, 1)} })
           : cs \in {str} })

\* v[name] of a parsed value
GetProp(v, name) ==
    IF v.t = "obj" /\ \E i \in 1..Len(v.fields) : v.fields[i].k = Chars(name)
    THEN v.fields[CHOOSE i \in 1..Len(v.fields) : v.fields[i].k = Chars(name)].v
    ELSE Undefined

\* what JSON.parse makes of JSON.stringify(v)
RECURSIVE Decoded(_)
Decoded(v) ==
    CASE v.t = "str" -> Str(StrChars(v), 0)
      [] v.t = "list" -> List([i \in 1..Len(v.xs) |-> Decoded(v.xs[i])])
      [] v.t = "obj" ->
            LET kept == SelectSeq(v.fields, LAMBDA f : f.v.t # "undefined")
            IN Obj([i \in 1..Len(kept) |-> [k |-> Chars(kept[i].k), v |-> Decoded(kept[i].v)]])
      [] OTHER -> v

\* tryParseValid(str), lines 976-984: the parsed value, or null
ExpectedKeys == {"items", "meta", "summary", "sections"}
tryParseValid(str) ==
    Pick({ IF /\ parsed.ok
              /\ Truthy(parsed.v)
              /\ \E name \in ExpectedKeys : Truthy(GetProp(parsed.v, name))
           THEN parsed.v
           ELSE JsNull
           : parsed \in {JsonParse(str)} })

\* \s of a regular expression, and the white space trim() removes
IsSpace(c) == c \in {32, 10, 13, 9, 11, 12, 160}
RECURSIVE SkipSpace(_, _)
SkipSpace(t, i) == IF i <= Len(t) /\ IsSpace(t[i]) THEN SkipSpace(t, i + 1) ELSE i

\* text.match(/```(?:json)?\s*(\{[\s\S]*?\})\s*```/), line 922.
\* IsFenceAt: ``` at t[p]; FenceGroupStart: the index of the '{' that opens the
\* group for a match that starts at p (0 when there is none); FenceGroupEnds:
\* the indexes of a '}' that can close the group, being followed by optional
\* white space and ```.  The match is the leftmost one, the group the shortest.
IsFenceAt(t, p) == p + 2 <= Len(t) /\ t[p] = 96 /\ t[p + 1] = 96 /\ t[p + 2] = 96
FenceGroupStart(t, p) ==
    LET b == SkipSpace(t, IF StartsWith(t, p + 3, Chars("json")) THEN p + 7 ELSE p + 3)
    IN IF b <= Len(t) /\ t[b] = 123 THEN b ELSE 0
FenceGroupEnds(t, b) ==
    {e \in (b + 1)..Len(t) : t[e] = 125 /\ IsFenceAt(t, SkipSpace(t, e + 1))}
FenceStarts(t) ==
    {p \in 1..Len(t) : /\ IsFenceAt(t, p)
                       /\ FenceGroupStart(t, p) # 0
                       /\ FenceGroupEnds(t, FenceGroupStart(t, p)) # {}}
\* fenceMatch[1]; <<>> when the expression does not match
FenceMatch(t) ==
    IF FenceStarts(t) = {} THEN <<>>
    ELSE Pick({ SubSeq(t, b, Min(FenceGroupEnds(t, b)))
                : b \in {FenceGroupStart(t, Min(FenceStarts(t)))} })

\* text.trim()
Trim(t) ==
    LET inked == {i \in 1..Len(t) : ~IsSpace(t[i])}
    IN IF inked = {} THEN <<>> ELSE SubSeq(t, Min(inked), Max(inked))

\* one iteration of the for loop of lines 947-963, at t[i]: the scan state is
\* [depth, inString, escape, end], end being the index of the '}' at which
\* depth came back to 0 (0 so far)
ScanStep_NoEscape(t, i, st) ==
    IF t[i] = 34 THEN [st EXCEPT !.inString = ~st.inString]
    ELSE IF st.inString THEN st
    ELSE IF t[i] = 123 THEN [st EXCEPT !.depth = st.depth + 1]
    ELSE IF t[i] = 125
    THEN [st EXCEPT !.depth = st.depth - 1, !.end = IF st.depth - 1 = 0 THEN i ELSE 0]
    ELSE st

ScanStep(t, i, st) ==
    IF st.escape THEN [st EXCEPT !.escape = FALSE]
    ELSE IF t[i] = 92 /\ st.inString THEN [st EXCEPT !.escape = TRUE]
    ELSE IF t[i] = 34 THEN [st EXCEPT !.inString = ~st.inString]
    ELSE IF st.inString THEN st
    ELSE IF t[i] = 123 THEN [st EXCEPT !.depth = st.depth + 1]
    ELSE IF t[i] = 125
    THEN [st EXCEPT !.depth = st.depth - 1, !.end = IF st.depth - 1 = 0 THEN i ELSE 0]
    ELSE st

\* the iterations at t[lo..hi], up to the one that sets end
RECURSIVE ScanRange(_, _, _, _)
ScanRange(t, lo, hi, st) ==
    IF st.end # 0 \/ lo > hi THEN st
    ELSE IF lo = hi THEN ScanStep(t, lo, st)
    ELSE Pick(UNION {{ScanRange(t, mid + 1, hi, left) : left \in {ScanRange(t, lo, mid, st)}}
                     : mid \in {(lo + hi) \div 2}})

\* the for loop started at startIdx: the index of the '}' that ends the
\* candidate, or 0 when the text ends with depth # 0
ScanEnd(t, startIdx) ==
    ScanRange(t, startIdx, Len(t),
              [depth |-> 0, inString |-> FALSE, escape |-> FALSE, end |-> 0]).end

\* strategy 3, the while loop of lines 938-965, with searchFrom counted from 1
BraceScan_FirstOnly(t, searchFrom) ==
    LET opens == {i \in searchFrom..Len(t) : t[i] = 123}
    IN IF opens = {} THEN JsNull
       ELSE Pick({ IF end = 0 THEN JsNull ELSE tryParseValid(SubSeq(t, startIdx, end))
                   : startIdx \in {Min(opens)}, end \in {ScanEnd(t, Min(opens))} })

RECURSIVE BraceScan(_, _)
BraceScan(t, searchFrom) ==
    LET opens == {i \in searchFrom..Len(t) : t[i] = 123}
    IN IF opens = {} THEN JsNull
       ELSE Pick({ IF end = 0 THEN JsNull
                   ELSE Pick({ IF result.t # "null" THEN result
                               ELSE BraceScan(t, end + 1)
                               : result \in {tryParseValid(SubSeq(t, startIdx, end))} })
                   : startIdx \in {Min(opens)},
                     end \in {ScanEnd(t, Min(opens))} })

\* extractJSON(text), lines 920-968: the parsed object, or null
extractJSON(text) ==
    Pick({ Pick({ IF first.t # "null" THEN first
                  ELSE Pick({ IF second.t # "null" THEN second ELSE BraceScan(t, 1)
                              : second \in {IF trimmed # <<>> /\ trimmed[1] = 123
                                            THEN tryParseValid(trimmed)
                                            ELSE JsNull} })
                  : first \in {IF fenceMatch # <<>> THEN tryParseValid(fenceMatch)
                               ELSE JsNull},
                    trimmed \in {Trim(t)} })
           : t \in {text}, fenceMatch \in {FenceMatch(text)} })

-----------------------------------------------------------------------------
(* extractJSON applied to the answers of the structuring provider.          *)

\* the prose before and after the fenced block
Proses ==
    << <<>>,    \* ""
       <<72, 101, 114, 101, 58, 10>>,    \* "Here:\n"
       <<97, 32, 123, 98, 125, 32, 99, 32>>,    \* "a {b} c "
       <<120, 32, 123, 32, 121, 32>>,    \* "x { y "
       <<115, 97, 121, 32, 34, 104, 105, 34, 32>>,    \* "say "hi" "
       <<96, 96, 96, 10, 123, 10, 96, 96, 96, 10>>,    \* "```\n{\n```\n"
       <<123, 125, 32>>,    \* "{} "
       <<125, 32, 122>> >>    \* "} z"

\* the line that opens the fenced block
Openers ==
    << <<96, 96, 96, 106, 115, 111, 110, 10>>,    \* "```json\n"
       <<96, 96, 96, 10>>,    \* "```\n"
       <<96, 96, 96, 106, 115, 111, 110>> >>    \* "```json"

\* the line that closes it
Closers ==
    << <<10, 96, 96, 96>>,    \* "\n```"
       <<96, 96, 96>> >>    \* "```"

\* the result objects the fenced block holds
ResultObjects ==
    << Obj(<<[k |-> "meta", v |-> Str(<<109>>, 0)]>>),
       Obj(<<[k |-> "items",
              v |-> List(<<Obj(<<[k |-> "title", v |-> Str(<<97>>, 0)]>>)>>)],
             [k |-> "summary", v |-> Str(<<115>>, 0)]>>),
       Obj(<<[k |-> "summary", v |-> Str(<<97, 125, 98>>, 0)]>>),
       Obj(<<[k |-> "sections", v |-> List(<<Num(1)>>)],
             [k |-> "meta", v |-> Str(<<109>>, 0)]>>) >>

\* a text with a fenced block that holds JSON.stringify of a result object
FencedText(pre, open, obj, close, post) ==
    Proses[pre] \o Openers[open] \o Json(ResultObjects[obj]) \o Closers[close]
        \o Proses[post]

FencedInputs ==
    {[pc |-> "ready", pre |-> pre, open |-> open, obj |-> obj, close |-> close,
      post |-> post, text |-> FencedText(pre, open, obj, close, post),
      result |-> JsNull]
        : pre \in DOMAIN Proses, open \in DOMAIN Openers, obj \in DOMAIN ResultObjects,
          close \in DOMAIN Closers, post \in DOMAIN Proses}

\* const parsed = extractJSON(text), line 742
CallExtractJSON ==
    /\ ex.pc = "ready"
    /\ \E result \in {extractJSON(ex.text)} :
          ex' = [ex EXCEPT !.pc = "done", !.result = result]
    /\ UNCHANGED <<now, ticks, cache, rateLimitMap, cfg, req, lastOp, recency,
                   storedAt, calls, rateLimitStore, ownStore>>

NextFenced == CallExtractJSON
InitFenced == InitCommon /\ cfg = NoConfig /\ ex \in FencedInputs
SpecFenced == InitFenced /\ [][NextFenced]_vars

\* C20: for a text that holds a fenced block with a valid result object,
\* extractJSON returns an object equal to that JSON, whatever the prose
\* before and after the block.
C20_FencedObjectIsExtracted ==
    ex.pc = "done" => ex.result = Decoded(ResultObjects[ex.obj])

-----------------------------------------------------------------------------
(* extractJSON applied to texts without a fence.                            *)

\* prose around the objects, without an opening brace
PlainProses ==
    << <<>>,    \* (empty)
       <<78, 111, 116, 101, 58, 32>>,    \* Note: 
       <<115, 97, 121, 32, 34, 104, 105, 32>>,    \* say "hi 
       <<125, 32, 122, 32>> >>    \* } z 

\* balanced objects without an expected top-level key
UnrelatedObjects ==
    << <<123, 125>>,    \* {}
       <<123, 32, 125>>,    \* { }
       <<123, 98, 125>>,    \* {b}
       <<123, 34, 97, 34, 58, 49, 125>>,    \* {"a":1}
       <<123, 34, 97, 34, 58, 123, 34, 109, 101, 116, 97, 34, 58, 34, 109, 34, 125, 125>>,    \* {"a":{"meta":"m"}}
       <<123, 34, 120, 34, 58, 34, 125, 34, 125>> >>    \* {"x":"}"}

\* the text between the unrelated object and the result object
Joints ==
    << <<32>>,    \*  
       <<10>>,    \* \n
       <<32, 116, 104, 101, 110, 32, 34, 32>>,    \*  then " 
       <<125, 32>> >>    \* } 

\* the text after the result object
Tails ==
    << <<>>,    \* (empty)
       <<32, 101, 110, 100>>,    \*  end
       <<32, 123>>,    \*  {
       <<32, 123, 125>> >>    \*  {}

\* texts in which an unrelated object comes before a result object
ScanInputs ==
    {[pc |-> "ready", family |-> "scan", pre |-> pre, junk |-> junk, obj |-> obj,
      text |-> PlainProses[pre] \o UnrelatedObjects[junk] \o Joints[mid]
                 \o Json(ResultObjects[obj]) \o Tails[post],
      want |-> Decoded(ResultObjects[obj]), result |-> JsNull]
        : pre \in DOMAIN PlainProses, junk \in DOMAIN UnrelatedObjects,
          mid \in DOMAIN Joints, obj \in DOMAIN ResultObjects, post \in DOMAIN Tails}

\* result objects whose strings hold quotes, backslashes and braces, as written
\* in the text, with the value JSON.parse gives
QuotedObjects ==
    << \* {"summary":"a\"}b"}
       [text |-> <<123, 34, 115, 117, 109, 109, 97, 114, 121, 34, 58, 34, 97, 92, 34, 125, 98, 34, 125>>,
        value |-> Obj(<<[k |-> <<115, 117, 109, 109, 97, 114, 121>>, v |-> Str(<<97, 34, 125, 98>>, 0)]>>)],
       \* {"meta":"{","items":[1]}
       [text |-> <<123, 34, 109, 101, 116, 97, 34, 58, 34, 123, 34, 44, 34, 105, 116, 101, 109, 115, 34, 58, 91, 49, 93, 125>>,
        value |-> Obj(<<[k |-> <<109, 101, 116, 97>>, v |-> Str(<<123>>, 0)], [k |-> <<105, 116, 101, 109, 115>>, v |-> List(<<Num(1)>>)]>>)],
       \* {"summary":"x\\"}
       [text |-> <<123, 34, 115, 117, 109, 109, 97, 114, 121, 34, 58, 34, 120, 92, 92, 34, 125>>,
        value |-> Obj(<<[k |-> <<115, 117, 109, 109, 97, 114, 121>>, v |-> Str(<<120, 92>>, 0)]>>)],
       \* {"meta":"\"{\"","summary":"}}"}
       [text |-> <<123, 34, 109, 101, 116, 97, 34, 58, 34, 92, 34, 123, 92, 34, 34, 44, 34, 115, 117, 109, 109, 97, 114, 121, 34, 58, 34, 125, 125, 34, 125>>,
        value |-> Obj(<<[k |-> <<109, 101, 116, 97>>, v |-> Str(<<34, 123, 34>>, 0)], [k |-> <<115, 117, 109, 109, 97, 114, 121>>, v |-> Str(<<125, 125>>, 0)]>>)],
       \* {"items":[{"title":"\\\"}"}]}
       [text |-> <<123, 34, 105, 116, 101, 109, 115, 34, 58, 91, 123, 34, 116, 105, 116, 108, 101, 34, 58, 34, 92, 92, 92, 34, 125, 34, 125, 93, 125>>,
        value |-> Obj(<<[k |-> <<105, 116, 101, 109, 115>>, v |-> List(<<Obj(<<[k |-> <<116, 105, 116, 108, 101>>, v |-> Str(<<92, 34, 125>>, 0)]>>)>>)]>>)],
       \* {"summary":"}{"}
       [text |-> <<123, 34, 115, 117, 109, 109, 97, 114, 121, 34, 58, 34, 125, 123, 34, 125>>,
        value |-> Obj(<<[k |-> <<115, 117, 109, 109, 97, 114, 121>>, v |-> Str(<<125, 123>>, 0)]>>)] >>


\* texts that hold one such object, from index from to index to
QuotedInputs ==
    {[pc |-> "ready", family |-> "quoted", pre |-> pre, obj |-> obj,
      text |-> PlainProses[pre] \o QuotedObjects[obj].text \o Tails[post],
      from |-> Len(PlainProses[pre]) + 1,
      to |-> Len(PlainProses[pre]) + Len(QuotedObjects[obj].text),
      want |-> QuotedObjects[obj].value, result |-> JsNull]
        : pre \in DOMAIN PlainProses, obj \in DOMAIN QuotedObjects, post \in DOMAIN Tails}

\* candidate objects, with and without the expected top-level keys
Candidates ==
    << \* {}
       [text |-> <<123, 125>>,
        value |-> Obj(<<>>)],
       \* {"a":1}
       [text |-> <<123, 34, 97, 34, 58, 49, 125>>,
        value |-> Obj(<<[k |-> <<97>>, v |-> Num(1)]>>)],
       \* {"a":{"meta":"m"}}
       [text |-> <<123, 34, 97, 34, 58, 123, 34, 109, 101, 116, 97, 34, 58, 34, 109, 34, 125, 125>>,
        value |-> Obj(<<[k |-> <<97>>, v |-> Obj(<<[k |-> <<109, 101, 116, 97>>, v |-> Str(<<109>>, 0)]>>)]>>)],
       \* {"meta":"m"}
       [text |-> <<123, 34, 109, 101, 116, 97, 34, 58, 34, 109, 34, 125>>,
        value |-> Obj(<<[k |-> <<109, 101, 116, 97>>, v |-> Str(<<109>>, 0)]>>)],
       \* {"items":[]}
       [text |-> <<123, 34, 105, 116, 101, 109, 115, 34, 58, 91, 93, 125>>,
        value |-> Obj(<<[k |-> <<105, 116, 101, 109, 115>>, v |-> List(<<>>)]>>)],
       \* {"summary":"s","x":1}
       [text |-> <<123, 34, 115, 117, 109, 109, 97, 114, 121, 34, 58, 34, 115, 34, 44, 34, 120, 34, 58, 49, 125>>,
        value |-> Obj(<<[k |-> <<115, 117, 109, 109, 97, 114, 121>>, v |-> Str(<<115>>, 0)], [k |-> <<120>>, v |-> Num(1)]>>)],
       \* {"sections":[1]}
       [text |-> <<123, 34, 115, 101, 99, 116, 105, 111, 110, 115, 34, 58, 91, 49, 93, 125>>,
        value |-> Obj(<<[k |-> <<115, 101, 99, 116, 105, 111, 110, 115>>, v |-> List(<<Num(1)>>)]>>)],
       \* {"meta":""}
       [text |-> <<123, 34, 109, 101, 116, 97, 34, 58, 34, 34, 125>>,
        value |-> Obj(<<[k |-> <<109, 101, 116, 97>>, v |-> Str(<<>>, 0)]>>)],
       \* {"items":null}
       [text |-> <<123, 34, 105, 116, 101, 109, 115, 34, 58, 110, 117, 108, 108, 125>>,
        value |-> Obj(<<[k |-> <<105, 116, 101, 109, 115>>, v |-> JsNull]>>)],
       \* {"summary":0}
       [text |-> <<123, 34, 115, 117, 109, 109, 97, 114, 121, 34, 58, 48, 125>>,
        value |-> Obj(<<[k |-> <<115, 117, 109, 109, 97, 114, 121>>, v |-> Num(0)]>>)],
       \* {"sections":false}
       [text |-> <<123, 34, 115, 101, 99, 116, 105, 111, 110, 115, 34, 58, 102, 97, 108, 115, 101, 125>>,
        value |-> Obj(<<[k |-> <<115, 101, 99, 116, 105, 111, 110, 115>>, v |-> Bool(FALSE)]>>)] >>

\* what comes before the candidate: nothing, a fence, prose
Wrappers ==
    << <<>>,    \* (empty)
       <<96, 96, 96, 106, 115, 111, 110, 10>>,    \* ```json\n
       <<78, 111, 116, 101, 58, 32>> >>    \* Note: 

\* and after it
WrapperEnds ==
    << <<>>,    \* (empty)
       <<10, 96, 96, 96>>,    \* \n```
       <<32, 101, 110, 100>> >>    \*  end


\* texts that hold one candidate: as the whole text, in a fence, in prose
KeyInputs ==
    {[pc |-> "ready", family |-> "keys", obj |-> obj, wrap |-> wrap,
      text |-> Wrappers[wrap] \o Candidates[obj].text \o WrapperEnds[wrap],
      want |-> Candidates[obj].value, result |-> JsNull]
        : obj \in DOMAIN Candidates, wrap \in DOMAIN Wrappers}

ExtractInputs == ScanInputs \cup QuotedInputs \cup KeyInputs

NextExtract == CallExtractJSON
InitExtract == InitCommon /\ cfg = NoConfig /\ ex \in ExtractInputs
SpecExtract == InitExtract /\ [][NextExtract]_vars

C22_StringsDoNotMoveDepth ==
    ex.pc = "done" /\ ex.family = "quoted"
        => /\ ScanEnd(ex.text, ex.from) = ex.to
           /\ JsonParse(SubSeq(ex.text, ex.from, ex.to)) = [ok |-> TRUE, v |-> ex.want]
           /\ ex.result = ex.want

\* the object {"summary":"a\"}b"} after prose
C22_Witness ==
    /\ ex.pc = "done" /\ ex.family = "quoted"
    /\ ex.obj = 1 /\ ex.pre = 2
    /\ ex.result = Obj(<<[k |-> Chars("summary"), v |-> Str(<<97, 34, 125, 98>>, 0)]>>)

\* the parsed object v has the key name
HasKey(v, name) == v.t = "obj" /\ \E i \in 1..Len(v.fields) : v.fields[i].k = Chars(name)

\* C23: extractJSON accepts a candidate exactly when the parsed object has at
\* least one of the top-level keys items, meta, summary, sections, in every
\* strategy (the candidate as the whole text, in a fence, in prose).
C23_AcceptedIffHasExpectedKey ==
    ex.pc = "done" /\ ex.family = "keys"
        => IF \E name \in ExpectedKeys : HasKey(ex.want, name)
           THEN ex.result = ex.want
           ELSE ex.result = JsNull

-----------------------------------------------------------------------------
(* The Georgian check of claudeAnalyze: part_003 lines 744-753.             *)

\* /[Ⴀ-ჿⴀ-⴯]/ matches the code unit c
IsGeorgian(c) == c \in 4256..4351 \/ c \in 11520..11567

\* georgianRegex.test(v || ''): '' for a falsy v, String(v) otherwise
RECURSIVE TestGeorgian(_)
TestGeorgian(v) ==
    IF ~Truthy(v) THEN FALSE
    ELSE CASE v.t = "str" -> \E i \in 1..Len(StrChars(v)) : IsGeorgian(StrChars(v)[i])
           [] v.t = "list" -> \E i \in 1..Len(v.xs) :
                                 v.xs[i].t \in {"str", "list"} /\ TestGeorgian(v.xs[i])
           [] OTHER -> FALSE

\* parsed.items.filter(...), lines 747-749
georgianItems(items) ==
    SelectSeq(items, LAMBDA item : \/ TestGeorgian(GetProp(item, "title"))
                                   \/ TestGeorgian(GetProp(item, "body")))

\* georgianItems.length / parsed.items.length, as a fraction (items is not empty)
georgianRatio(items) == [num |-> Len(georgianItems(items)), den |-> Len(items)]

\* georgianRatio < 0.5, line 752: the quotient of two small integers is below
\* 0.5 exactly when twice the numerator is below the denominator
BelowHalf_OrEqual(ratio) == 2 * ratio.num <= ratio.den
BelowHalf(ratio) == 2 * ratio.num < ratio.den

\* the translation call is made for these items
needsCorrection(items) == BelowHalf(georgianRatio(items))

\* items of a structured answer: title and body in Georgian (4304 is U+10D0,
\* 11520 is U+2D00), in Latin letters, mixed, empty or missing
Item(title, body) == Obj(<<[k |-> Chars("title"), v |-> title], [k |-> Chars("body"), v |-> body]>>)
ItemKinds ==
    << Item(Str(<<4304, 4305>>, 0), Str(<<4306>>, 0)),
       Item(Str(<<97, 98>>, 0), Str(<<99, 32, 4304>>, 0)),
       Item(Str(<<11520>>, 0), Str(<<97>>, 0)),
       Obj(<<[k |-> Chars("title"), v |-> Str(<<4304>>, 0)]>>),
       Item(Str(<<97, 98>>, 0), Str(<<99>>, 0)),
       Item(Str(<<>>, 0), JsNull),
       Obj(<<[k |-> Chars("title"), v |-> Num(7)]>>) >>
\* the kinds that hold a Georgian character in the title or the body
GeorgianKinds == {1, 2, 3, 4}
MaxItems == 4

ItemLists == UNION {[1..n -> DOMAIN ItemKinds] : n \in 1..MaxItems}
GeorgianInputs ==
    {[pc |-> "ready", family |-> "georgian", kinds |-> kinds,
      items |-> [i \in DOMAIN kinds |-> ItemKinds[kinds[i]]], result |-> FALSE]
        : kinds \in ItemLists}

\* lines 744-752 for an answer with items
CallNeedsCorrection ==
    /\ ex.pc = "ready"
    /\ ex' = [ex EXCEPT !.pc = "done", !.result = needsCorrection(ex.items)]
    /\ UNCHANGED <<now, ticks, cache, rateLimitMap, cfg, req, lastOp, recency,
                   storedAt, calls, rateLimitStore, ownStore>>

NextGeorgian == CallNeedsCorrection
InitGeorgian == InitCommon /\ cfg = NoConfig /\ ex \in GeorgianInputs
SpecGeorgian == InitGeorgian /\ [][NextGeorgian]_vars

\* the number of items of the input that hold a Georgian character
Qualifying(e) == Cardinality({i \in DOMAIN e.kinds : e.kinds[i] \in GeorgianKinds})

C25_FailedCorrectionKeepsOriginal ==
    /\ [](\A s \in Slots :
            req[s].pc = "fix"
                => /\ req[s].parsed = Result("object", "claude", 2, req[s].b)
                   /\ req[s].cl = "english")
    /\ [][\A s \in Slots, outcome \in FixOutcomes \ {"items", "english"} :
            FixDone(s, outcome)
                => /\ req'[s].pc = "done" /\ req'[s].status = 200
                   /\ req'[s].body = SetPipeline(req[s].parsed,
                                                 [set |-> TRUE, source |-> "",
                                                  n8n |-> req[s].n8n])]_vars

C25_Witness ==
    \E s \in Slots :
        /\ "fix" \in req[s].fx /\ req[s].cl = "english"
        /\ req[s].pc = "done" /\ req[s].status = 200
        /\ req[s].body.src = "claude" /\ req[s].body.items = 2

-----------------------------------------------------------------------------
(* The handler when every upstream call comes to an end.                    *)

\* a pending upstream call of invocation s returns, fails or is aborted
Complete(s) ==
    \/ \E outcome \in ProxyOutcomes : ProxyDone(s, outcome)
    \/ \E outcome \in SearchOutcomes : SearchDone(s, outcome)
    \/ \E outcome \in ClaudeOutcomes : ClaudeDone(s, outcome)
    \/ \E outcome \in FixOutcomes : FixDone(s, outcome)
    \/ \E outcome \in ReportOutcomes : ReportDone(s, outcome)

\* requests of one client within one rate-limit window: without a body, with
\* an unknown type, research, clinics without countries, report
LiveBodies == {1, 4, 7, 11, 12}
NextLive ==
    \/ \E ip \in HandlerIPs, b \in LiveBodies : Arrive(1, ip, b)
    \/ \E method \in Methods : ArriveOther(1, method)
    \/ Complete(1)
    \/ \E outcome \in LogOutcomes : LogDone(1, outcome)
InitLive == InitCommon /\ cfg \in HandlerConfigs /\ ex = NoExtraction
SpecLive == InitLive /\ [][NextLive]_vars /\ WF_vars(Complete(1))

\* C26: every request gets exactly one response.  A request is answered once
\* when the handler is done with it and not before; a request that waits for
\* an upstream call is answered eventually, given that the call ends; and
\* nothing that happens after the response sends another one.
C26_ExactlyOneResponse ==
    /\ [](\A s \in Slots :
            /\ req[s].sent <= 1
            /\ req[s].pc = "done" <=> req[s].sent = 1)
    /\ \A s \in Slots : (req[s].pc \in Calls) ~> (req[s].pc = "done" /\ req[s].sent = 1)
    /\ [][\A s \in Slots, outcome \in LogOutcomes :
            LogDone(s, outcome) => req'[s].sent = req[s].sent]_vars

\* a request answered after its calls failed, whose telemetry then failed too
C26_Witness ==
    \E s \in Slots :
        /\ req[s].method = "POST" /\ req[s].pc = "done" /\ req[s].sent = 1
        /\ {"search", "claude"} \subseteq req[s].fx
        /\ req[s].log = "failed"

\* ---------------------------------------------------------------------------
\* The timeouts of the upstream calls
\* ---------------------------------------------------------------------------

\* the abort timer of the pending call fires (setTimeout at lines 464, 554,
\* 710, 756, 852); it is armed only until fetch resolves
TimerFires(s) ==
    \/ ProxyDone(s, "timeout")
    \/ SearchDone(s, "timeout")
    \/ ClaudeDone(s, "timeout")
    \/ FixDone(s, "timeout")
    \/ ReportDone(s, "timeout")

\* one invocation whose upstreams may answer with a status line and then
\* deliver the body late or never; the only step that is certain to happen is
\* the firing of an armed timer
NextStall ==
    \/ NextLive
    \/ HeadersDone(1)

InitStall == InitLive

SpecStall == InitStall /\ [][NextStall]_vars /\ WF_vars(TimerFires(1))

\* C27: every upstream call is guarded by its timeout for the whole call, so
\* a request suspended on an upstream call is always resumed, at the latest
\* when the budget of that call elapses.
C27_CallEndsWithinBudget ==
    \A s \in Slots : (req[s].pc \in Calls) ~> (req[s].pc \notin Calls)

\* a call whose timer was cleared while the body is still outstanding
C27_Stalled ==
    \E s \in Slots : req[s].pc \in Calls /\ req[s].head

\* ---------------------------------------------------------------------------
\* SpecLimiters: the three limiters of lib/security.js and the cleanup, called
\* in any order, at any time, for one client
\* ---------------------------------------------------------------------------

LimiterIPs == {"ip1"}
MaxLimiterCalls == 22
\* the clock advances to just after the end of a window; two such steps make
\* an entry stale for the cleanup
LimiterSteps == {LimiterWindowMs + 1}

\* searchRateLimiter(ip), authRateLimiter(ip) or leadsRateLimiter(ip); alone is
\* what the same limiter returns on a Map that only it uses
CallLimiter(name, ip) ==
    /\ \E r \in {createRateLimiter(LimiterMax[name], LimiterWindowMs, rateLimitStore, ip, now)},
          a \in {createRateLimiter(LimiterMax[name], LimiterWindowMs, ownStore[name], ip, now)} :
          /\ r.map[ip].count <= MaxLimiterCalls
          /\ rateLimitStore' = r.map
          /\ ownStore' = [ownStore EXCEPT ![name] = a.map]
          /\ lastOp' = [op |-> "limiter", name |-> name, ip |-> ip,
                        limited |-> r.limited, alone |-> a.limited]
    /\ UNCHANGED <<now, ticks, cache, rateLimitMap, cfg, req, recency, storedAt, calls, ex>>

\* the setInterval callback of lines 99-106
StoreSweepTimer ==
    /\ rateLimitStore' = storeSweep(rateLimitStore, now)
    /\ ownStore' = [name \in Limiters |-> storeSweep(ownStore[name], now)]
    /\ lastOp' = NoOp
    /\ UNCHANGED <<now, ticks, cache, rateLimitMap, cfg, req, recency, storedAt, calls, ex>>

NextLimiters ==
    \/ \E name \in Limiters, ip \in LimiterIPs : CallLimiter(name, ip)
    \/ StoreSweepTimer
    \/ \E d \in LimiterSteps : Tick(d)

InitLimiters == InitCommon /\ cfg = NoConfig /\ ex = NoExtraction

SpecLimiters == InitLimiters /\ [][NextLimiters]_vars

\* C28: the limiters of lib/security.js enforce their limits independently:
\* what a limiter returns for a client is what it would return had the other
\* limiters never been called.
C28_LimitersAreIndependent ==
    lastOp.op = "limiter" => lastOp.limited = lastOp.alone

\* the sixth call of a client is its first call of the auth limiter
C28_CrossLimited ==
    /\ lastOp.op = "limiter" /\ lastOp.name = "auth"
    /\ lastOp.limited /\ ~lastOp.alone
    /\ ownStore["auth"][lastOp.ip].count = 1

\* ---------------------------------------------------------------------------
\* SpecDemo: requests of one client in demo mode; the two slots keep any two
\* of the invocations made so far
\* ---------------------------------------------------------------------------

DemoConfigs == {c \in Configs : ~c.perplexity /\ ~c.anthropic}
DemoBodies == {4, 7, 8, 9, 12}
\* the clock advances to just after the end of the client's window
DemoSteps == {RATE_LIMIT_WINDOW_MS + 1}

NextDemo ==
    \/ \E s \in Slots, ip \in HandlerIPs, b \in DemoBodies : Invoke(s, ip, b)
    \/ \E d \in DemoSteps : Tick(d)

InitDemo == InitCommon /\ cfg \in DemoConfigs /\ ex = NoExtraction

SpecDemo == InitDemo /\ [][NextDemo]_vars

\* C29: in demo mode two identical requests that are admitted receive the same
\* response body (the same content, items and flags), whichever requests were
\* made before, between and after them.
C29_DemoIsDeterministic ==
    \A s1, s2 \in Slots :
        /\ Answered(req[s1]) /\ Admitted(req[s1])
        /\ Answered(req[s2]) /\ Admitted(req[s2])
        /\ req[s1].b = req[s2].b
        => /\ req[s1].status = 200 /\ req[s2].status = 200
           /\ req[s1].body = req[s2].body

\* the same research request as the first and as the third request of a window
C29_Witness ==
    /\ Answered(req[1]) /\ Answered(req[2])
    /\ req[1].b = 7 /\ req[2].b = 7
    /\ req[1].nth = 1 /\ req[2].nth = 3
    /\ req[1].status = 200 /\ req[1].body.src = "demo" /\ req[1].body.items = 3
    /\ req[2].body.isDemo

\* ---------------------------------------------------------------------------
\* The tagging of the static demo data
\* ---------------------------------------------------------------------------

\* C30: every 200 response whose content is the static demo data carries
\* isDemo = true, whether it comes from the demo short-circuit or from the
\* demo fallback of the direct pipeline.
C30_DemoContentIsTagged ==
    \A s \in Slots :
        /\ Answered(req[s]) /\ req[s].status = 200
        /\ req[s].body.src \in {"demo", "demoReport"}
        => req[s].body.isDemo

\* the demo fallback of claudeAnalyze answered, after a search that gave no
\* text and a structuring call that failed
C30_UntaggedFallback ==
    \E s \in Slots :
        /\ Answered(req[s]) /\ req[s].status = 200
        /\ req[s].body.src = "demo" /\ ~req[s].body.isDemo
        /\ req[s].cl = "failed" /\ req[s].sr # "text"

\* ---------------------------------------------------------------------------
\* The caching of fallback results
\* ---------------------------------------------------------------------------

\* the results of the fallback stages: formatRawResults, the demo fallback of
\* claudeAnalyze, and the two text fallbacks of lines 793-812
FallbackSources == {"raw", "demo", "claudeText", "unstructured"}

TwoBodies == {7, 9}
TwoConfigs == {[perplexity |-> TRUE, anthropic |-> TRUE, n8n |-> TRUE, supabase |-> FALSE],
               [perplexity |-> TRUE, anthropic |-> FALSE, n8n |-> FALSE, supabase |-> FALSE]}

NextTwo ==
    \/ \E s \in Slots, ip \in HandlerIPs, b \in TwoBodies :
          calls[ip].n < MaxRequests /\ Arrive(s, ip, b)
    \/ \E s \in Slots, outcome \in ProxyOutcomes : ProxyDone(s, outcome)
    \/ \E s \in Slots, outcome \in SearchOutcomes : SearchDone(s, outcome)
    \/ \E s \in Slots, outcome \in ClaudeOutcomes : ClaudeDone(s, outcome)
    \/ \E s \in Slots, outcome \in FixOutcomes : FixDone(s, outcome)

InitTwo == InitCommon /\ cfg \in TwoConfigs /\ ex = NoExtraction

SpecTwo == InitTwo /\ [][NextTwo]_vars

\* the entries of the cache c stored under key
EntriesOf(c, key) == {i \in 1..Len(c) : c[i].key = key}

\* C32: two identical non-report requests in flight at the same time are
\* handled independently.  A request that arrives while an identical one is
\* suspended on an upstream call, with nothing stored for them yet, misses the
\* cache and goes into the pipeline itself, leaving the other invocation as
\* it is; and when a request is answered by the pipeline after an identical
\* one was, the cache holds exactly one entry for their key, holding the
\* result of the request answered last.
C32_IdenticalInFlight ==
    /\ [][\A s1, s2 \in Slots :
            /\ s1 # s2
            /\ req[s1].pc \in Calls
            /\ calls' # calls /\ req'[s2] # req[s2]
            /\ req'[s2].b = req[s1].b /\ Admitted(req'[s2])
            /\ ~cacheHas(cache, CacheKeys[req[s1].b])
            => /\ req'[s2].pc \in Calls
               /\ "cacheGet" \in req'[s2].fx
               /\ ~req'[s2].seen
               /\ req'[s1] = req[s1]
               /\ cache' = cache]_vars
    /\ [][\A s1, s2 \in Slots :
            /\ s1 # s2
            /\ req[s1].pc \in Calls /\ req'[s1].pc = "done" /\ req'[s1].status = 200
            /\ req[s2].pc = "done" /\ req[s2].status = 200 /\ ~req[s2].body.cached
            /\ req[s2].b = req[s1].b
            => /\ Cardinality(EntriesOf(cache', CacheKeys[req[s1].b])) = 1
               /\ cacheEntry(cache', CacheKeys[req[s1].b]).data = req'[s1].body
               /\ cacheEntry(cache', CacheKeys[req[s1].b]).ts = now
               /\ req'[s2] = req[s2]]_vars

\* two identical research requests were in flight together; the first to
\* finish got the structured result, the last one the raw search text, which
\* is what the cache holds
C32_Witness ==
    /\ req[1].pc = "done" /\ req[2].pc = "done"
    /\ req[1].b = 7 /\ req[2].b = 7
    /\ req[1].status = 200 /\ req[2].status = 200
    /\ req[2].body.src = "claude" /\ req[1].body.src = "raw"
    /\ Len(cache) = 1
    /\ cache[1].data = req[1].body

\* ---------------------------------------------------------------------------
\* SpecRefresh: cacheSet called with two different results, at any time,
\* with any key
\* ---------------------------------------------------------------------------

RefreshData == {[kind |-> "object", tag |-> 1], [kind |-> "object", tag |-> 2]}
RefreshSteps == {1}

NextRefresh ==
    \/ \E key \in TestKeys, data \in RefreshData : CallCacheSet(key, data)
    \/ \E d \in RefreshSteps : Tick(d)

InitRefresh == InitCommon /\ cfg = NoConfig /\ ex = NoExtraction

SpecRefresh == InitRefresh /\ [][NextRefresh]_vars

\* C33: cacheSet on a key that is present replaces its value and timestamp
\* and moves the entry to the most recently used position; no other entry is
\* removed, changed or reordered and the size stays the same, also when the
\* cache is at capacity.
C33_SetOfPresentKeyRefreshes ==
    [][\A key \in TestKeys, data \in RefreshData :
          CallCacheSet(key, data) /\ cacheHas(cache, key)
              => /\ Len(cache') = Len(cache)
                 /\ cache'[Len(cache')] = [key |-> key, data |-> data, ts |-> now]
                 /\ cacheDelete(cache', key) = cacheDelete(cache, key)]_vars

\* at capacity, a key that was present has just been set again, with the
\* second value and at a later time than the oldest entry
C33_Witness ==
    /\ lastOp.op = "cacheSet" /\ lastOp.had
    /\ Len(cache) = CACHE_MAX_SIZE
    /\ recency[Len(recency)] = lastOp.key
    /\ cache[Len(cache)].key = lastOp.key
    /\ cache[Len(cache)].data.tag = 2
    /\ cache[Len(cache)].ts = now
    /\ now > cache[1].ts

\* ---------------------------------------------------------------------------
\* The correction call is made once
\* ---------------------------------------------------------------------------

\* C34: for one request the correction call is issued at most once and its
\* output is returned as it is.  A request comes to wait for the correction
\* call only from the structuring call and only if it has made no correction
\* call before; every step of a request that waits for the correction call
\* answers it with 200; and a correction whose items are still mostly English
\* is the body of that answer.
C34_OneCorrection ==
    /\ [][\A s \in Slots :
            req'[s].pc = "fix" /\ req[s].pc # "fix"
                => req[s].pc = "claude" /\ "fix" \notin req[s].fx]_vars
    /\ [][\A s \in Slots :
            req[s].pc = "fix" /\ req'[s] # req[s]
                => req'[s].pc = "done" /\ req'[s].status = 200]_vars
    /\ [][\A s \in Slots :
            FixDone(s, "english")
                => req'[s].body = SetPipeline(fixParsed("english", req[s].b),
                                              [set |-> TRUE, source |-> "",
                                               n8n |-> req[s].n8n])]_vars

\* a request answered with a correction that is still mostly English
C34_Witness ==
    \E s \in Slots :
        /\ req[s].pc = "done" /\ req[s].status = 200
        /\ req[s].cl = "english" /\ "fix" \in req[s].fx
        /\ req[s].body.src = "claudeFixEnglish" /\ req[s].body.items = 2

\* ---------------------------------------------------------------------------
\* SpecSweep: cacheSet, cacheGet and the sweep called in any order, at any
\* time, with any key; the sweep is observed
\* ---------------------------------------------------------------------------

\* the setInterval callback of lines 128-135, with the cache it found
CallCacheSweep ==
    /\ cache' = cacheSweep(cache, now)
    /\ lastOp' = [op |-> "cacheSweep", before |-> cache]
    /\ recency' = Restrict(recency, cache')
    /\ storedAt' = Forget(storedAt, cache')
    /\ UNCHANGED <<now, ticks, rateLimitMap, cfg, req, calls, ex, rateLimitStore, ownStore>>

NextSweep ==
    \/ \E key \in TestKeys, data \in TestData : CallCacheSet(key, data)
    \/ \E key \in TestKeys : CallCacheGet(key)
    \/ CallCacheSweep
    \/ \E d \in CacheSteps : Tick(d)

InitSweep == InitCommon /\ cfg = NoConfig /\ ex = NoExtraction

SpecSweep == InitSweep /\ [][NextSweep]_vars

\* C35: the sweep removes an entry exactly when its age exceeds the TTL,
\* which is exactly when cacheGet would have reported it absent, and the
\* entries that remain are unchanged and in the order they had.
C35_SweepRemovesExactlyExpired ==
    lastOp.op = "cacheSweep" =>
        /\ \A i \in 1..Len(lastOp.before) :
              LET e == lastOp.before[i] IN
              /\ cacheHas(cache, e.key) <=> now - e.ts <= CACHE_TTL_MS
              /\ cacheHas(cache, e.key) <=> cacheGet(lastOp.before, e.key, now).data # Null
        /\ cache = SelectSeq(lastOp.before, LAMBDA e : cacheHas(cache, e.key))

\* a sweep has removed the expired first entry and kept a second entry whose
\* age is exactly the TTL
C35_Witness ==
    /\ lastOp.op = "cacheSweep"
    /\ Len(lastOp.before) = 2 /\ Len(cache) = 1
    /\ cache[1] = lastOp.before[2]
    /\ now - cache[1].ts = CACHE_TTL_MS

\* ---------------------------------------------------------------------------
\* The cleanup of the rate limiter
\* ---------------------------------------------------------------------------

\* the cleanup removes the window of client ip in this step
Swept(ip) == rateLimitMap[ip].present /\ ~rateLimitMap'[ip].present

\* C36 as stated: the cleanup removes a client's window only when the client
\* has made no call for more than 2W.
C36_SweepOnlyIdleClients ==
    [][RateSweepTimer =>
          \A ip \in IPs :
              Swept(ip) => now - calls[ip].last > RATE_LIMIT_WINDOW_MS * 2]_vars

\* C36 amended: the cleanup removes a client's window exactly when more than
\* 2W have passed since the window started.  By then the window has expired
\* and the client has made no call for more than W, so what the client's next
\* call returns and leaves in the map is the same with and without the
\* removal; every other window is left as it was.
C36_SweepOnlyExpiredWindows ==
    [][RateSweepTimer =>
          \A ip \in IPs :
              /\ Swept(ip) <=> /\ rateLimitMap[ip].present
                               /\ now - rateLimitMap[ip].windowStart
                                      > RATE_LIMIT_WINDOW_MS * 2
              /\ Swept(ip) =>
                    /\ now - calls[ip].last > RATE_LIMIT_WINDOW_MS
                    /\ isRateLimited(rateLimitMap', ip, now).limited
                           = isRateLimited(rateLimitMap, ip, now).limited
                    /\ isRateLimited(rateLimitMap', ip, now).map[ip]
                           = isRateLimited(rateLimitMap, ip, now).map[ip]
              /\ ~Swept(ip) => rateLimitMap'[ip] = rateLimitMap[ip]]_vars

\* the window of a client was removed although its last call is not more
\* than 2W old
C36_Witness ==
    \E ip \in IPs :
        /\ ~rateLimitMap[ip].present
        /\ calls[ip].n > 1
        /\ now - calls[ip].start > RATE_LIMIT_WINDOW_MS * 2
        /\ now - calls[ip].last <= RATE_LIMIT_WINDOW_MS * 2
        /\ calls[ip].last > calls[ip].start

\* ---------------------------------------------------------------------------
\* SpecPasses: extractJSON applied to texts with several candidates
\* ---------------------------------------------------------------------------

\* the passes of strategy 3 (lines 936-965) from searchFrom on, in order.  A
\* pass looks for '{' from its searchFrom (from), runs the for loop from there
\* (start, 0 when there is no '{') up to the last index it reads (last), and
\* has the result of tryParseValid on its candidate (null when there is none)
RECURSIVE BracePasses_Restart(_, _)
BracePasses_Restart(t, searchFrom) ==
    LET opens == {i \in searchFrom..Len(t) : t[i] = 123}
    IN IF searchFrom > Len(t) THEN <<>>
       ELSE IF opens = {}
       THEN << [from |-> searchFrom, start |-> 0, last |-> Len(t), result |-> JsNull] >>
       ELSE Pick({ IF end = 0
                   THEN << [from |-> searchFrom, start |-> startIdx, last |-> Len(t),
                            result |-> JsNull] >>
                   ELSE Pick({ << [from |-> searchFrom, start |-> startIdx, last |-> end,
                                   result |-> result] >>
                               \o (IF result.t # "null" THEN <<>>
                                   ELSE BracePasses_Restart(t, startIdx + 1))
                               : result \in {tryParseValid(SubSeq(t, startIdx, end))} })
                   : startIdx \in {Min(opens)},
                     end \in {ScanEnd(t, Min(opens))} })

RECURSIVE BracePasses(_, _)
BracePasses(t, searchFrom) ==
    LET opens == {i \in searchFrom..Len(t) : t[i] = 123}
    IN IF searchFrom > Len(t) THEN <<>>
       ELSE IF opens = {}
       THEN << [from |-> searchFrom, start |-> 0, last |-> Len(t), result |-> JsNull] >>
       ELSE Pick({ IF end = 0
                   THEN << [from |-> searchFrom, start |-> startIdx, last |-> Len(t),
                            result |-> JsNull] >>
                   ELSE Pick({ << [from |-> searchFrom, start |-> startIdx, last |-> end,
                                   result |-> result] >>
                               \o (IF result.t # "null" THEN <<>>
                                   ELSE BracePasses(t, end + 1))
                               : result \in {tryParseValid(SubSeq(t, startIdx, end))} })
                   : startIdx \in {Min(opens)},
                     end \in {ScanEnd(t, Min(opens))} })

\* the pieces the texts are put together from
Pieces ==
    << <<123, 125>>,    \* {}
       <<123, 97, 125>>,    \* {a}
       <<123, 34, 120, 34, 58, 34, 125, 34, 125>>,    \* {"x":"}"}
       <<123, 34, 97, 34, 58, 123, 34, 98, 34, 58, 49, 125, 125>>,    \* {"a":{"b":1}}
       <<32>>,    \*  
       <<120>>,    \* x
       <<123>>,    \* {
       <<125>>,    \* }
       <<34>>,    \* "
       <<123, 34, 109, 101, 116, 97, 34, 58, 34, 109, 34, 125>> >>    \* {"meta":"m"}


PassInputs ==
    {[pc |-> "ready", family |-> "passes",
      text |-> Pieces[a] \o Pieces[b] \o Pieces[c] \o Pieces[d],
      result |-> JsNull]
        : a \in DOMAIN Pieces, b \in DOMAIN Pieces, c \in DOMAIN Pieces,
          d \in {5, 7, 10}}

NextPasses == CallExtractJSON
InitPasses == InitCommon /\ cfg = NoConfig /\ ex \in PassInputs
SpecPasses == InitPasses /\ [][NextPasses]_vars

\* the result of the last pass
LastResult(passes) == IF passes = <<>> THEN JsNull ELSE passes[Len(passes)].result

\* C37: strategy 3 ends on every text and reads no index twice.  The first
\* pass starts at the beginning, every pass reads at least one index and none
\* beyond the end of the text, every later pass starts at the index after the
\* last one the pass before it read, so the ranges of the passes are disjoint
\* and there are at most as many passes as the text has characters; the
\* result of the last pass is the result of the scan, and it is what
\* extractJSON returns unless the whole text was parsed before the scan.
C37_PassesNeverRescan ==
    ex.pc = "done" /\ ex.family = "passes"
        => \A passes \in {BracePasses(ex.text, 1)} :
              /\ passes # <<>> /\ passes[1].from = 1
              /\ Len(passes) <= Len(ex.text)
              /\ \A k \in 1..Len(passes) :
                    /\ passes[k].from <= passes[k].last
                    /\ passes[k].last <= Len(ex.text)
                    /\ passes[k].start # 0 =>
                          /\ passes[k].from <= passes[k].start
                          /\ passes[k].start <= passes[k].last
                    /\ k > 1 => passes[k].from = passes[k - 1].last + 1
                    /\ k < Len(passes) => passes[k].result = JsNull
              /\ \A j, k \in 1..Len(passes) :
                    j < k => (passes[j].from .. passes[j].last)
                               \cap (passes[k].from .. passes[k].last) = {}
              /\ BraceScan(ex.text, 1) = LastResult(passes)
              /\ ex.result # LastResult(passes)
                    => ex.result = tryParseValid(Trim(ex.text))

\* three candidates were rejected one after the other and the fourth pass
\* found the result
C37_Witness ==
    /\ ex.pc = "done" /\ ex.family = "passes"
    /\ Len(BracePasses(ex.text, 1)) = 4
    /\ ex.result # JsNull
    /\ ex.result = LastResult(BracePasses(ex.text, 1))

\* ---------------------------------------------------------------------------
\* SpecValidate: requests with a valid type whose text fields and age are on,
\* just inside and just outside the limits of the validation
\* ---------------------------------------------------------------------------

ValidateBodies == {5, 6, 7, 9} \cup (13..26)

NextValidate ==
    \/ \E ip \in HandlerIPs, b \in ValidateBodies : Invoke(1, ip, b)
    \/ \E d \in DemoSteps : Tick(d)

InitValidate == InitCommon /\ cfg = NoConfig /\ ex = NoExtraction

SpecValidate == InitValidate /\ [][NextValidate]_vars

\* one of the six text fields of data is a string of more than 2000 characters
TextTooLong(data) ==
    \E i \in 1..Len(TextFields) :
        LET field == Prop(data, TextFields[i])
        IN field.t = "str" /\ StrLen(field) > MAX_TEXT_LENGTH

\* age is a number from 0 to 150, written as a number or in decimal digits
AgeInRange(age) ==
    \/ age.t = "num" /\ age.v >= 0 /\ age.v <= 150
    \/ age.t = "str" /\ age.pad = 0 /\ IsDigits(age.pre) /\ DigitsValue(age.pre) <= 150

\* C38: a request with a valid type and a data object that the rate limiter
\* lets pass is answered 400 exactly when one of its text fields is longer
\* than 2000 characters or its age is given and is not a number from 0 to 150.
C38_RejectsExactlyBadFields ==
    \A s \in Slots :
        /\ Answered(req[s]) /\ req[s].nth <= RATE_LIMIT_MAX
        /\ Bodies[req[s].b].type \in VALID_TYPES
        /\ Bodies[req[s].b].data.t = "obj"
        => LET data == Bodies[req[s].b].data
               age == Prop(data, "age")
           IN req[s].status = 400
                  <=> \/ TextTooLong(data)
                      \/ age.t # "undefined" /\ ~AgeInRange(age)

\* a request whose age is the boolean true was answered 200
C38_NonNumericAgeAccepted ==
    \E s \in Slots :
        /\ Answered(req[s]) /\ req[s].status = 200
        /\ Prop(Bodies[req[s].b].data, "age") = Bool(TRUE)

\* ---------------------------------------------------------------------------
\* SpecCompat: ensureBackwardCompat applied to proxy results whose sections,
\* items and meta are missing, null, empty and filled
\* ---------------------------------------------------------------------------

\* 'ძიების შედეგები', line 896
DefaultProxyMeta == Str(<<4331, 4312, 4308, 4305, 4312, 4321, 32, 4328, 4308, 4307, 4308, 4306, 4308, 4305, 4312>>, 0)

\* the outcome of a call that ended in a TypeError
Threw == [t |-> "threw"]

\* x.length === 0
LengthIsZero(v) ==
    \/ v.t = "list" /\ v.xs = <<>>
    \/ v.t = "str" /\ StrLen(v) = 0

\* sections.flatMap(s => s.items || []): [threw, xs], the values the callbacks
\* return with the lists among them flattened by one level; threw when a
\* section is null or undefined
RECURSIVE FlatMapItems(_)
FlatMapItems(secs) ==
    IF secs = <<>> THEN [threw |-> FALSE, xs |-> <<>>]
    ELSE LET s == secs[1]
             rest == FlatMapItems(Tail(secs))
             its == IF Truthy(Prop(s, "items")) THEN Prop(s, "items") ELSE List(<<>>)
         IN IF s.t \in {"null", "undefined"} \/ rest.threw
            THEN [threw |-> TRUE, xs |-> <<>>]
            ELSE [threw |-> FALSE,
                  xs |-> (IF its.t = "list" THEN its.xs ELSE <<its>>) \o rest.xs]

\* line 892 with every empty items list kept: only a missing items is filled
ensureBackwardCompat_OnlyMissingItems(result) ==
    LET sections == Prop(result, "sections")
        items == Prop(result, "items")
        flat == IF sections.t = "list" THEN FlatMapItems(sections.xs)
                ELSE [threw |-> TRUE, xs |-> <<>>]
        fill == Truthy(sections) /\ items.t = "undefined"
        r1 == IF fill /\ ~flat.threw THEN SetProp(result, "items", List(flat.xs)) ELSE result
    IN IF fill /\ flat.threw THEN Threw
       ELSE IF ~Truthy(Prop(r1, "meta")) THEN SetProp(r1, "meta", DefaultProxyMeta)
       ELSE r1

\* lines 891-899
ensureBackwardCompat(result) ==
    LET sections == Prop(result, "sections")
        items == Prop(result, "items")
        flat == IF sections.t = "list" THEN FlatMapItems(sections.xs)
                ELSE [threw |-> TRUE, xs |-> <<>>]
        fill == Truthy(sections) /\ (~Truthy(items) \/ LengthIsZero(items))
        r1 == IF fill /\ ~flat.threw THEN SetProp(result, "items", List(flat.xs)) ELSE result
    IN IF fill /\ flat.threw THEN Threw
       ELSE IF ~Truthy(Prop(r1, "meta")) THEN SetProp(r1, "meta", DefaultProxyMeta)
       ELSE r1

ProxyItem(n) == Obj(<<[k |-> "title", v |-> Str(<<116>>, 0)], [k |-> "n", v |-> Num(n)]>>)
Section(fields) == Obj(<<[k |-> "title", v |-> Str(<<115>>, 0)]>> \o fields)

\* the values of sections in the proxy results: missing, null, no section,
\* two sections, four sections of which one has no items and one an empty
\* list, and an object that is no list
CompatSections ==
    << Undefined,
       JsNull,
       List(<<>>),
       List(<<Section(<<[k |-> "items", v |-> List(<<ProxyItem(1), ProxyItem(2)>>)]>>),
              Section(<<[k |-> "items", v |-> List(<<ProxyItem(3)>>)]>>)>>),
       List(<<Section(<<[k |-> "items", v |-> List(<<ProxyItem(3)>>)]>>),
              Section(<<>>),
              Section(<<[k |-> "items", v |-> List(<<>>)]>>),
              Section(<<[k |-> "items", v |-> List(<<ProxyItem(2), ProxyItem(1)>>)]>>)>>),
       Obj(<<>>) >>

\* the values of items: missing, null, empty, one item, two items, and an
\* object that is no list
CompatItems ==
    << Undefined, JsNull, List(<<>>), List(<<ProxyItem(9)>>), List(<<ProxyItem(8), ProxyItem(7)>>),
       Obj(<<>>) >>

\* the values of meta: missing, null, empty and a text
CompatMetas == << Undefined, JsNull, Str(<<>>, 0), Str(<<109>>, 0) >>

\* the object with the properties that are given, in this order
ObjOf(pairs) ==
    Obj(SelectSeq(pairs, LAMBDA p : p.v.t # "undefined"))

CompatInputs ==
    {[pc |-> "ready", family |-> "compat",
      arg |-> ObjOf(<<[k |-> "meta", v |-> CompatMetas[m]],
                      [k |-> "items", v |-> CompatItems[i]],
                      [k |-> "sections", v |-> CompatSections[s]]>>),
      result |-> JsNull]
        : m \in DOMAIN CompatMetas, i \in DOMAIN CompatItems, s \in DOMAIN CompatSections}

\* return ensureBackwardCompat(result), line 872
CallEnsureBackwardCompat ==
    /\ ex.pc = "ready"
    /\ \E result \in {ensureBackwardCompat(ex.arg)} :
          ex' = [ex EXCEPT !.pc = "done", !.result = result]
    /\ UNCHANGED <<now, ticks, cache, rateLimitMap, cfg, req, lastOp, recency,
                   storedAt, calls, rateLimitStore, ownStore>>

NextCompat == CallEnsureBackwardCompat
InitCompat == InitCommon /\ cfg = NoConfig /\ ex \in CompatInputs
SpecCompat == InitCompat /\ [][NextCompat]_vars

\* the item lists of the sections, one after the other in section order
RECURSIVE SectionItems(_)
SectionItems(secs) ==
    IF secs = <<>> THEN <<>>
    ELSE (IF Prop(secs[1], "items").t = "list" THEN Prop(secs[1], "items").xs ELSE <<>>)
         \o SectionItems(Tail(secs))

NonEmptyList(v) == v.t = "list" /\ v.xs # <<>>

\* the properties other than name, in their order
Others(obj, name) == Obj(SelectSeq(obj.fields, LAMBDA f : f.k # name))

KeyText(key) == Chars(key.type) \o <<58>> \o Json(Num(key.hash))

CrossBodies == {7, 27}

NextCross ==
    \/ \E s \in Slots, ip \in HandlerIPs, b \in CrossBodies :
          calls[ip].n < MaxRequests /\ Arrive(s, ip, b)
    \/ \E s \in Slots, outcome \in ProxyOutcomes : ProxyDone(s, outcome)
    \/ \E s \in Slots, outcome \in SearchOutcomes : SearchDone(s, outcome)
    \/ \E s \in Slots, outcome \in ClaudeOutcomes : ClaudeDone(s, outcome)
    \/ \E s \in Slots, outcome \in FixOutcomes : FixDone(s, outcome)

InitCross == InitCommon /\ cfg \in TwoConfigs /\ ex = NoExtraction

SpecCross == InitCross /\ [][NextCross]_vars

\* C40: cached results never cross search types.  The keys of two requests
\* are the same string exactly when type and hash are both the same; every
\* entry of the cache is stored under the type of the request its result was
\* computed for; a request that is answered from the cache gets a result that
\* was computed for a request of its own type; and a request that arrives
\* while the cache holds an entry with its hash and another type, and none
\* under its own key, goes into the pipeline.
C40_CachedResultsKeepType ==
    /\ [](\A b1, b2 \in CrossBodies :
            KeyText(CacheKeys[b1]) = KeyText(CacheKeys[b2])
                <=> /\ Bodies[b1].type = Bodies[b2].type
                    /\ CacheKeys[b1].hash = CacheKeys[b2].hash)
    /\ [](\A i \in 1..Len(cache) : cache[i].key.type = Bodies[cache[i].data.q].type)
    /\ [](\A s \in Slots :
            Answered(req[s]) /\ req[s].status = 200 /\ req[s].body.cached
                => Bodies[req[s].body.q].type = Bodies[req[s].b].type)
    /\ [][\A s \in Slots :
            /\ calls' # calls /\ req'[s] # req[s] /\ Admitted(req'[s])
            /\ ~cacheHas(cache, CacheKeys[req'[s].b])
            /\ \E i \in 1..Len(cache) : cache[i].key.hash = CacheKeys[req'[s].b].hash
            => /\ req'[s].pc \in Calls
               /\ ~req'[s].seen
               /\ cache' = cache]_vars

\* a symptoms request whose hash is the hash of the research request stored
\* before it was answered by the pipeline with a result of its own, and the
\* cache holds the two results under the two keys
C40_Witness ==
    /\ CacheKeys[7].hash = CacheKeys[27].hash
    /\ Len(cache) = 2
    /\ cache[1].key = CacheKeys[7] /\ cache[1].data.q = 7
    /\ cache[2].key = CacheKeys[27] /\ cache[2].data.q = 27
    /\ \E s \in Slots :
          /\ Answered(req[s]) /\ req[s].b = 27 /\ req[s].status = 200
          /\ ~req[s].body.cached /\ req[s].body.q = 27

=============================================================================
